---------------------------- MODULE Spec2Model ----------------------------
(***************************************************************************)
(* A model of the RNA variant design toolkit (NoRDe / RNA-Designer):      *)
(* similarity utilities, the variant filter and its Lmax exclusion filter, *)
(* the diversity selector, the candidate generators, the conservation     *)
(* profiler and the multi-run aggregation loop.                           *)
(*                                                                         *)
(* A sequence is a tuple of one-letter strings over {A,C,G,U}.  The        *)
(* external folding engine (ViennaRNA) is an environment: every answer it  *)
(* gives is a nondeterministic choice.  Each component has its own         *)
(* variables and its own specification (SpecLmax, SpecFilter, ...); the    *)
(* variables of the other components stay at their initial values.         *)
(***************************************************************************)
EXTENDS Integers, Sequences, FiniteSets, TLC

VARIABLES
    \* VariantFilter.enforce_lmax_filter: arguments and returned list
    lf_variants, lf_wt_seq, lf_threshold, lf_passed, lf_pc,
    \* VariantFilter.filter_variants: arguments, Config.TARGET_VARIANT_COUNT,
    \* the engine's answers to the calls made, and the returned list
    fv_variants, fv_wt_struct, fv_target, fv_fold, fv_conf, fv_top, fv_pc,
    \* GroupGenerator.select_diverse_subset: arguments and returned list
    ss_variants, ss_n, ss_result, ss_pc,
    \* GroupGenerator.generate_diverse_groups: arguments, selected_indices,
    \* the groups built so far (as index lists, 1-based), the number of
    \* iterations of the outer loop done, and the position in the function
    gg_variants, gg_group_size, gg_n_groups, gg_wt_seq, gg_selected_indices,
    gg_groups, gg_iter, gg_pc,
    \* InverseFolding.generate: arguments, the set `variants`, the number of
    \* RNA.inverse_fold invocations made, the returned list, the position in
    \* the function, and the lru_cache of the function
    if_target_structure, if_num_variants, if_max_attempts, if_variants,
    if_attempts, if_result, if_pc, if_lru_cache,
    \* VariantGenerator.generate: Config.GENERATION_METHOD, arguments, the
    \* mutation seed, the returned list and the position in the function
    vg_method, vg_target_structure, vg_num_variants, vg_seed, vg_result, vg_pc,
    \* aggregate_runs: n_runs, the Config values it reads (GENERATION_METHOD,
    \* TARGET_VARIANT_COUNT, LMAX_THRESHOLD), the folding engine's answers,
    \* the loop counter, all_variants, the returned list and the position
    pl_n_runs, pl_method, pl_target, pl_threshold, pl_fold, pl_conf,
    pl_run, pl_all_variants, pl_final_variants, pl_pc,
    \* ... raw_variants and filtered of the latest run
    pl_raw, pl_filtered,
    \* ConservationAnalyzer: the file output/conservation_cache.npy, the
    \* analyzer's reference sequence, analyze's argument, the attempts and
    \* accepts matrices of the last _run_analysis, analyze's returned
    \* profile and its outcome
    ca_cache_file, ca_seq, ca_attempts_per_pos, ca_attempts, ca_accepts,
    ca_result, ca_pc,
    \* ... self.struct and self.mfe, the results parallel_map has so far (by
    \* position), the position analysed last and what run_rnafold gave for
    \* its three variants
    ca_ref_fold, ca_results, ca_last_pos, ca_last_folds,
    \* ... and the setting of Config.CONSERVATION_ATTEMPTS
    ca_config_attempts,
    \* the folding engine's caches: lru_cache of run_rnafold,
    \* cache_manager.rnafold_cache, the number of times the engine itself was
    \* invoked per operation and sequence in this process, the value last
    \* returned
    or_lru, or_rnafold_cache, or_engine_calls, or_result,
    \* ParallelProcessor: the entry point called, the work items, the results
    \* the workers have produced (by item index), the order in which the
    \* workers finished, the returned list, whether the except branch ran
    pm_op, pm_items, pm_done, pm_order, pm_result, pm_fell_back, pm_pc,
    \* a call of longest_common_substring: its arguments and its value
    lc_s1, lc_s2, lc_result, lc_pc,
    \* ConservationMutator._generate_candidate: the seed, the settings of
    \* Config.MUTATION_STRATEGY and Config.N_MUTATIONS, the n_mutations it
    \* passes on, n_mutations as _mutate_with_bias caps it, mut_positions,
    \* the number of them the for loop has done, the list `seq`, the
    \* current_base and the alternatives of the latest iteration, the
    \* returned value and the position in the function
    mu_seed, mu_strategy, mu_config_n, mu_n_mutations, mu_capped, mu_positions,
    mu_done, mu_seq, mu_current_base, mu_alternatives, mu_result, mu_pc

lmaxVars == <<lf_variants, lf_wt_seq, lf_threshold, lf_passed, lf_pc>>

filterVars == <<fv_variants, fv_wt_struct, fv_target, fv_fold, fv_conf, fv_top, fv_pc>>

subsetVars == <<ss_variants, ss_n, ss_result, ss_pc>>

groupVars == <<gg_variants, gg_group_size, gg_n_groups, gg_wt_seq,
               gg_selected_indices, gg_groups, gg_iter, gg_pc>>

inverseVars == <<if_target_structure, if_num_variants, if_max_attempts,
                 if_variants, if_attempts, if_result, if_pc, if_lru_cache>>

generatorVars == <<vg_method, vg_target_structure, vg_num_variants, vg_seed,
                   vg_result, vg_pc>>

pipelineVars == <<pl_n_runs, pl_method, pl_target, pl_threshold, pl_fold, pl_conf,
                  pl_run, pl_all_variants, pl_final_variants, pl_pc,
                  pl_raw, pl_filtered>>

conservationVars == <<ca_cache_file, ca_seq, ca_attempts_per_pos, ca_attempts,
                      ca_accepts, ca_result, ca_pc, ca_ref_fold, ca_results,
                      ca_last_pos, ca_last_folds, ca_config_attempts>>

oracleVars == <<or_lru, or_rnafold_cache, or_engine_calls, or_result>>

parallelVars == <<pm_op, pm_items, pm_done, pm_order, pm_result, pm_fell_back, pm_pc>>

lcsVars == <<lc_s1, lc_s2, lc_result, lc_pc>>

mutationVars == <<mu_seed, mu_strategy, mu_config_n, mu_n_mutations, mu_capped,
                  mu_positions, mu_done, mu_seq, mu_current_base,
                  mu_alternatives, mu_result, mu_pc>>

vars == <<lmaxVars, filterVars, subsetVars, groupVars, inverseVars, generatorVars,
          pipelineVars, conservationVars, oracleVars, parallelVars, lcsVars, mutationVars>>

-----------------------------------------------------------------------------
(* Bounds of the model *)

\* longest candidate list handed to enforce_lmax_filter
MaxCand == 3
\* longest candidate list handed to filter_variants
MaxFilterCand == 2
\* largest Config.TARGET_VARIANT_COUNT tried (1..MaxTarget)
MaxTarget == 2
\* longest pool handed to the diversity selector
MaxPool == 3
\* largest subset size n requested (0..MaxSubset)
MaxSubset == 4
\* largest group_size and n_groups requested (0..MaxGroupSize, 0..MaxGroups)
MaxGroupSize == 2
MaxGroups == 2
\* largest num_variants and max_attempts handed to InverseFolding.generate
MaxNumVariants == 2
MaxMaxAttempts == 2
\* RNA.inverse_fold invocations followed within one call of
\* InverseFolding.generate
AttemptCap == 4
\* distinct argument tuples of InverseFolding.generate followed within one
\* behaviour
MaxInverseCalls == 2
\* mutation trials followed within one call of ConservationMutator.generate
MaxTrials == 3
\* largest n_runs handed to aggregate_runs (1..MaxRuns)
MaxRuns == 2
\* number of inverse-fold attempts or mutation trials one run's generation
\* is followed for in aggregate_runs
MaxRaw == 2
\* largest attempts_per_pos handed to ConservationAnalyzer.analyze
MaxAttemptsPerPos == 2
\* most invocations of the engine followed per operation and sequence
MaxEngineCalls == 2
\* most work items handed to the worker pool
MaxItems == 3
\* longest sequence handed to longest_common_substring on its own
MaxLcsLen == 3
\* largest Lmax threshold tried (thresholds range over 0..MaxThreshold)
MaxThreshold == 3
\* largest setting of Config.N_MUTATIONS tried besides the shipped one, and
\* the largest tried on a seed of more than 30 nt
MaxNMutations == 3
MaxLongMutations == 1

-----------------------------------------------------------------------------
(* Generic helpers *)

Range(s) == {s[i] : i \in 1..Len(s)}

SetMax(S) == CHOOSE x \in S : \A y \in S : y <= x

SetMin(S) == CHOOSE x \in S : \A y \in S : x <= y

\* all tuples over S of length 0..n
SeqsUpTo(S, n) == UNION {[1..k -> S] : k \in 0..n}

-----------------------------------------------------------------------------
(* SequenceAnalyzer.longest_common_substring *)

RECURSIVE lcs_dp_aligned(_, _, _, _)
lcs_dp_aligned(s1, s2, i, j) ==
    IF i = 0 \/ j = 0 THEN 0
    ELSE IF s1[i] = s2[j] /\ i = j THEN lcs_dp_aligned(s1, s2, i - 1, j - 1) + 1
    ELSE 0

\* dp[i][j] of the code (1-based here): length of the common run ending at
\* s1[i] and s2[j]; row 0 and column 0 are 0.
RECURSIVE lcs_dp(_, _, _, _)
lcs_dp(s1, s2, i, j) ==
    IF i = 0 \/ j = 0 THEN 0
    ELSE IF s1[i] = s2[j] THEN lcs_dp(s1, s2, i - 1, j - 1) + 1
    ELSE 0

longest_common_substring(s1, s2) ==
    IF Len(s1) = 0 \/ Len(s2) = 0 THEN 0
    ELSE SetMax({0} \cup {lcs_dp(s1, s2, i, j) : i \in 1..Len(s1), j \in 1..Len(s2)})

-----------------------------------------------------------------------------
(* VariantFilter.enforce_lmax_filter *)

\* Sequences offered to the Lmax filter: length 4, sharing runs of length
\* 0..4 with one another.
LmaxPool ==
    { <<"A","C","G","U">>, <<"A","C","G","A">>, <<"U","A","C","G">>,
      <<"G","G","C","C">>, <<"C","C","G","G">>, <<"A","U","A","U">> }

\* a plausible slip: the candidate is compared with the reference only
lmax_accepts_ref_only(candidate, passed, wt_seq, threshold) ==
    longest_common_substring(candidate, wt_seq) <= threshold

\* lines 29-30: max over passed + [wt_seq] of the Lmax, compared with threshold
lmax_accepts(candidate, passed, wt_seq, threshold) ==
    LET against == Append(passed, wt_seq)
        max_lmax == SetMax({longest_common_substring(candidate, against[k]) :
                              k \in 1..Len(against)})
    IN  max_lmax <= threshold

\* the list `passed` after the first k candidates were processed
RECURSIVE lmax_passed_after(_, _, _, _)
lmax_passed_after(variants, wt_seq, threshold, k) ==
    IF k = 0 THEN <<>>
    ELSE LET passed == lmax_passed_after(variants, wt_seq, threshold, k - 1)
         IN  IF lmax_accepts(variants[k], passed, wt_seq, threshold)
             THEN Append(passed, variants[k])
             ELSE passed

\* a slip: the candidates are processed from the last to the first
enforce_lmax_filter_backwards(variants, wt_seq, threshold) ==
    LET reversed(q) == [k \in 1..Len(q) |-> q[Len(q) + 1 - k]]
    IN  reversed(lmax_passed_after(reversed(variants), wt_seq, threshold, Len(variants)))

\* lines 27-32: `passed` once the for loop has gone through all the variants
enforce_lmax_filter(variants, wt_seq, threshold) ==
    lmax_passed_after(variants, wt_seq, threshold, Len(variants))

\* one call of enforce_lmax_filter on arbitrary arguments
LmaxCall ==
    /\ lf_pc = "idle"
    /\ \E vs \in SeqsUpTo(LmaxPool, MaxCand), wt \in LmaxPool, th \in 0..MaxThreshold :
          /\ lf_variants' = vs
          /\ lf_wt_seq' = wt
          /\ lf_threshold' = th
          /\ lf_passed' = enforce_lmax_filter(vs, wt, th)
    /\ lf_pc' = "done"
    /\ UNCHANGED <<filterVars, subsetVars, groupVars, inverseVars, generatorVars, pipelineVars, conservationVars,
                   oracleVars, parallelVars, lcsVars, mutationVars>>

InitLmax ==
    /\ lf_variants = <<>>
    /\ lf_wt_seq = <<>>
    /\ lf_threshold = 0
    /\ lf_passed = <<>>
    /\ lf_pc = "idle"


-----------------------------------------------------------------------------
(* Config: filtering constraints *)

\* Config.GC_CONTENT_RANGE = (40, 60), in percent
GC_CONTENT_MIN == 40
GC_CONTENT_MAX == 60
\* Config.MIN_STRUCTURE_PROB = 0.7, in hundredths
MIN_STRUCTURE_PROB == 70
\* Config.MAX_STRUCTURE_DIVERSITY = 20
MAX_STRUCTURE_DIVERSITY == 20
\* has_homopolymer's default max_run
MAX_RUN == 3

-----------------------------------------------------------------------------
(* SequenceAnalyzer.gc_content and has_homopolymer *)

\* number of G/C bases
gc_count(seq) == Cardinality({i \in 1..Len(seq) : seq[i] \in {"G", "C"}})

\* The percentage (count / len) * 100 as the exact fraction <<num, den>>;
\* 0 for the empty sequence.
gc_content(seq) ==
    IF Len(seq) = 0 THEN <<0, 1>> ELSE <<100 * gc_count(seq), Len(seq)>>

\* GC_CONTENT_RANGE[0] <= gc_content(seq) <= GC_CONTENT_RANGE[1]
in_gc_range(seq) ==
    LET gc == gc_content(seq)
    IN  GC_CONTENT_MIN * gc[2] <= gc[1] /\ gc[1] <= GC_CONTENT_MAX * gc[2]

\* the loop's `count` after index i (1-based) was processed
RECURSIVE homopolymer_count(_, _)
homopolymer_count(seq, i) ==
    IF i <= 1 THEN 1
    ELSE IF seq[i] = seq[i - 1] THEN homopolymer_count(seq, i - 1) + 1
    ELSE 1

has_homopolymer(seq, max_run) ==
    IF Len(seq) = 0 THEN FALSE
    ELSE \E i \in 2..Len(seq) : homopolymer_count(seq, i) > max_run

-----------------------------------------------------------------------------
(* The folding engine's answers                                            *)

\* dot-bracket structures of the model; "" is what run_rnafold returns with
\* MFE 0 when the engine raises
TargetStruct == "((....))"
OtherStruct == "(......)"

\* run_rnafold answers <<structure, mfe>>
FoldAnswers == { <<TargetStruct, -2>>, <<TargetStruct, -13>>,
                 <<OtherStruct, -2>>, <<"", 0>> }

\* structure_confidence answers <<probability in hundredths, diversity>>;
\* <<0, 0>> is what it returns when the engine raises
ConfAnswers == { <<90, 5>>, <<70, 20>>, <<69, 5>>, <<90, 21>>, <<0, 0>> }

-----------------------------------------------------------------------------
(* VariantFilter.filter_variants *)

\* Candidates offered to filter_variants, 10 nt each: GC 40% and 60% (the
\* band's bounds), GC 30%, and GC 50% with a run AAAA.
SeqGc40 == <<"G","C","A","U","A","G","A","U","C","A">>
SeqGc60 == <<"G","C","G","U","C","G","A","U","C","A">>
SeqGc30 == <<"G","A","A","U","A","G","A","U","C","A">>
SeqHomo == <<"A","A","A","A","G","G","C","C","G","U">>

FilterPool == {SeqGc40, SeqGc60, SeqGc30, SeqHomo}

\* line 12: the candidate is not skipped by the first three criteria
passes_basic(seq, struct, wt_struct) ==
    ~( \/ struct # wt_struct
       \/ ~in_gc_range(seq)
       \/ has_homopolymer(seq, MAX_RUN) )

\* a slip: the diversity criterion left out
passes_confidence_prob_only(prob, diversity) == ~(prob < MIN_STRUCTURE_PROB)

\* line 16: the candidate is not skipped by the confidence criteria
passes_confidence(prob, diversity) ==
    ~(prob < MIN_STRUCTURE_PROB \/ diversity > MAX_STRUCTURE_DIVERSITY)

\* a slip: structure_confidence is called for every candidate
ConfCalledForAll(variants, wt_struct, fold) == Range(variants)

\* the sequences for which structure_confidence is called (line 15)
ConfCalled(variants, wt_struct, fold) ==
    {seq \in Range(variants) : passes_basic(seq, fold[seq][1], wt_struct)}

\* variant_info after the loop of lines 11-19 processed the first k candidates
RECURSIVE variant_info_after(_, _, _, _, _)
variant_info_after(variants, wt_struct, fold, conf, k) ==
    IF k = 0 THEN <<>>
    ELSE LET info == variant_info_after(variants, wt_struct, fold, conf, k - 1)
             seq == variants[k]
         IN  IF ~passes_basic(seq, fold[seq][1], wt_struct) THEN info
             ELSE IF ~passes_confidence(conf[seq][1], conf[seq][2]) THEN info
             ELSE Append(info, [seq |-> seq, mfe |-> fold[seq][2],
                                prob |-> conf[seq][1], diversity |-> conf[seq][2]])

\* a slip: the MFE left out of the sort key
key_before_prob_only(a, b) == a.prob > b.prob

\* the sort key (-prob, mfe) of line 21: a sorts strictly before b
key_before(a, b) == a.prob > b.prob \/ (a.prob = b.prob /\ a.mfe < b.mfe)

\* list.sort is stable: x goes after every entry whose key is not greater
sorted_insert(sorted, x) ==
    LET n == Cardinality({k \in 1..Len(sorted) : ~key_before(x, sorted[k])})
    IN  SubSeq(sorted, 1, n) \o <<x>> \o SubSeq(sorted, n + 1, Len(sorted))

RECURSIVE sort_variant_info(_, _)
sort_variant_info(info, k) ==
    IF k = 0 THEN <<>>
    ELSE sorted_insert(sort_variant_info(info, k - 1), info[k])

filter_variants(variants, wt_struct, fold, conf, target) ==
    LET info == variant_info_after(variants, wt_struct, fold, conf, Len(variants))
        ranked == sort_variant_info(info, Len(info))
        top == SubSeq(ranked, 1, IF target < Len(ranked) THEN target ELSE Len(ranked))
    IN  [k \in 1..Len(top) |-> top[k].seq]

\* one call of filter_variants: the candidate list, the reference structure,
\* the configured target count and the engine's answers are arbitrary
FilterCall ==
    /\ fv_pc = "idle"
    /\ \E vs \in SeqsUpTo(FilterPool, MaxFilterCand), ws \in {TargetStruct, ""},
          tc \in 1..MaxTarget :
         \E fold \in [Range(vs) -> FoldAnswers] :
           \E conf \in [ConfCalled(vs, ws, fold) -> ConfAnswers] :
              /\ fv_variants' = vs
              /\ fv_wt_struct' = ws
              /\ fv_target' = tc
              /\ fv_fold' = fold
              /\ fv_conf' = conf
              /\ fv_top' = filter_variants(vs, ws, fold, conf, tc)
    /\ fv_pc' = "done"
    /\ UNCHANGED <<lmaxVars, subsetVars, groupVars, inverseVars, generatorVars, pipelineVars, conservationVars,
                   oracleVars, parallelVars, lcsVars, mutationVars>>

InitFilter ==
    /\ fv_variants = <<>>
    /\ fv_wt_struct = ""
    /\ fv_target = 1
    /\ fv_fold = <<>>
    /\ fv_conf = <<>>
    /\ fv_top = <<>>
    /\ fv_pc = "idle"

-----------------------------------------------------------------------------
(* GroupGenerator: the Hamming distance matrix *)

\* Pools handed to the diversity selector are lists over these 4-nt sequences.
SelPool ==
    { <<"A","C","G","U">>, <<"A","C","G","A">>, <<"U","A","C","G">>,
      <<"G","G","C","C">>, <<"A","U","A","U">> }

\* reference sequences handed to generate_diverse_groups (DNA or RNA letters)
SelRefs == { <<"A","C","G","T">>, <<"G","G","C","C">> }

\* pairwise_distances(metric='hamming') * len(variants[0]): the number of
\* positions at which two sequences of equal length differ
hamming(a, b) == Cardinality({k \in 1..Len(a) : a[k] # b[k]})

dist_matrix(variants, i, j) == hamming(variants[i], variants[j])

\* sum of the values of f over the finite set S
RECURSIVE SumOver(_, _)
SumOver(S, f) ==
    IF S = {} THEN 0
    ELSE LET x == CHOOSE y \in S : TRUE IN f[x] + SumOver(S \ {x}, f)

\* max(indices, key=...): indices are visited in ascending order and the
\* first one with the largest key is kept
first_max(indices, key) ==
    SetMin({i \in indices : \A j \in indices : key[j] <= key[i]})

\* max over (key, idx) tuples: the largest key and, among equals, the
\* largest index
last_max(indices, key) ==
    SetMax({i \in indices : \A j \in indices : key[j] <= key[i]})

\* min(dist_matrix[idx][s] for s in members)
min_dist(variants, idx, members) ==
    SetMin({dist_matrix(variants, idx, members[k]) : k \in 1..Len(members)})

-----------------------------------------------------------------------------
(* GroupGenerator.select_diverse_subset / distance_based_selection *)

\* pools of 100 sequences or more go to cluster_based_selection (k-means),
\* which is outside this model
CLUSTER_POOL_SIZE == 100

\* lines 74-87: one pass of the while loop's body: the remaining index with
\* the largest minimum distance to the selected ones, the first such index
\* in ascending order (min_dist > best_score, best_score starting at -1)
dbs_best_idx(variants, selected) ==
    LET remaining_indices == (1..Len(variants)) \ Range(selected)
    IN  first_max(remaining_indices,
                  [idx \in remaining_indices |-> min_dist(variants, idx, selected)])

\* `selected` once it holds k indices (k >= 1), or all of them
RECURSIVE dbs_selected(_, _)
dbs_selected(variants, k) ==
    IF k <= 1
    THEN LET all == 1..Len(variants)
         IN  <<first_max(all, [i \in all |->
                     SumOver(all, [j \in all |-> dist_matrix(variants, i, j)])])>>
    ELSE LET selected == dbs_selected(variants, k - 1)
         IN  IF Len(selected) < k - 1 \/ Range(selected) = 1..Len(variants)
             THEN selected
             ELSE Append(selected, dbs_best_idx(variants, selected))

distance_based_selection(variants, n) ==
    LET selected == dbs_selected(variants, n)
    IN  [k \in 1..Len(selected) |-> variants[selected[k]]]

\* a slip: a pool of exactly n sequences goes through the selection too
select_diverse_subset_strict(variants, n) ==
    IF n = 0 THEN <<>>
    ELSE IF Len(variants) < n THEN variants
    ELSE distance_based_selection(variants, n)

\* lines 51-57, for pools of fewer than CLUSTER_POOL_SIZE sequences
select_diverse_subset(variants, n) ==
    IF n = 0 THEN <<>>
    ELSE IF Len(variants) <= n THEN variants
    ELSE distance_based_selection(variants, n)

\* one call of select_diverse_subset on an arbitrary pool and n
SubsetCall ==
    /\ ss_pc = "idle"
    /\ \E vs \in SeqsUpTo(SelPool, MaxPool), n \in 0..MaxSubset :
          /\ Len(vs) < CLUSTER_POOL_SIZE
          /\ ss_variants' = vs
          /\ ss_n' = n
          /\ ss_result' = select_diverse_subset(vs, n)
    /\ ss_pc' = "done"
    /\ UNCHANGED <<lmaxVars, filterVars, groupVars, inverseVars, generatorVars, pipelineVars, conservationVars,
                   oracleVars, parallelVars, lcsVars, mutationVars>>

InitSubset ==
    /\ ss_variants = <<>>
    /\ ss_n = 0
    /\ ss_result = <<>>
    /\ ss_pc = "idle"

-----------------------------------------------------------------------------
(* GroupGenerator.generate_diverse_groups *)

\* wt_seq.replace("T", "U")
replace_T_with_U(seq) == [k \in 1..Len(seq) |-> IF seq[k] = "T" THEN "U" ELSE seq[k]]

\* line 26-27: np.sum(np.array(seq) != np.array(wt_array)) for each variant
dists_to_wt(variants, wt_seq) ==
    [i \in 1..Len(variants) |-> hamming(variants[i], replace_T_with_U(wt_seq))]

\* lines 24-29: the seeds the branch on `group` can yield; `group` is the
\* list created empty at the top of the iteration
group_seeds(variants, wt_seq, group, available) ==
    IF group = <<>>
    THEN {first_max(available, [i \in available |-> dists_to_wt(variants, wt_seq)[i]])}
    ELSE available

\* lines 19-29 as one iteration of the for loop runs them: `group = []` at
\* line 19 is what the branch at line 24 tests
iteration_seeds(variants, wt_seq, available) ==
    group_seeds(variants, wt_seq, <<>>, available)

\* lines 34-44: `group` and `selected_indices` after the while loop, started
\* from `group` with `selected` the indices taken so far
\* a slip: among equal scores the first remaining index is taken
growth_best_idx_first(variants, group, selected) ==
    LET remaining == (1..Len(variants)) \ selected
    IN  first_max(remaining, [idx \in remaining |-> min_dist(variants, idx, group)])

\* lines 35-42: `_, best_idx = max(scores)` over the (min_dist, idx) tuples
\* of the remaining indices
growth_best_idx(variants, group, selected) ==
    LET remaining == (1..Len(variants)) \ selected
    IN  last_max(remaining, [idx \in remaining |-> min_dist(variants, idx, group)])

RECURSIVE grow_group(_, _, _, _)
grow_group(variants, group_size, group, selected) ==
    IF Len(group) < group_size /\ Cardinality(selected) < Len(variants)
    THEN LET best_idx == growth_best_idx(variants, group, selected)
         IN  grow_group(variants, group_size, Append(group, best_idx),
                        selected \cup {best_idx})
    ELSE [group |-> group, selected_indices |-> selected]

\* a slip: the seed is not recorded in selected_indices
seed_selected_forgotten(selected, first) == selected

\* line 32: selected_indices.add(first)
seed_selected(selected, first) == selected \cup {first}

\* the call: lines 12-16.  pairwise_distances raises on an empty list
GroupsCall ==
    /\ gg_pc = "idle"
    /\ \E vs \in SeqsUpTo(SelPool, MaxPool), gs \in 0..MaxGroupSize,
          ng \in 0..MaxGroups, wt \in SelRefs :
          /\ gg_variants' = vs
          /\ gg_group_size' = gs
          /\ gg_n_groups' = ng
          /\ gg_wt_seq' = wt
          /\ gg_pc' = IF Len(vs) = 0 THEN "raised" ELSE "loop"
    /\ gg_selected_indices' = {}
    /\ gg_groups' = <<>>
    /\ gg_iter' = 0
    /\ UNCHANGED <<lmaxVars, filterVars, subsetVars, inverseVars, generatorVars, pipelineVars, conservationVars,
                   oracleVars, parallelVars, lcsVars, mutationVars>>

\* one iteration of `for _ in range(n_groups)` that builds a group
GroupsIter ==
    /\ gg_pc = "loop"
    /\ gg_iter < gg_n_groups
    /\ LET available == (1..Len(gg_variants)) \ gg_selected_indices
       IN  /\ available # {}
           /\ \E first \in iteration_seeds(gg_variants, gg_wt_seq, available) :
                LET grown == grow_group(gg_variants, gg_group_size, <<first>>,
                                        seed_selected(gg_selected_indices, first))
                IN  /\ gg_groups' = Append(gg_groups, grown.group)
                    /\ gg_selected_indices' = grown.selected_indices
    /\ gg_iter' = gg_iter + 1
    /\ UNCHANGED <<gg_variants, gg_group_size, gg_n_groups, gg_wt_seq, gg_pc>>
    /\ UNCHANGED <<lmaxVars, filterVars, subsetVars, inverseVars, generatorVars, pipelineVars, conservationVars,
                   oracleVars, parallelVars, lcsVars, mutationVars>>

\* the loop ends (range exhausted, or `break` on an empty `available`) and
\* the groups are returned
GroupsReturn ==
    /\ gg_pc = "loop"
    /\ \/ gg_iter >= gg_n_groups
       \/ (1..Len(gg_variants)) \ gg_selected_indices = {}
    /\ gg_pc' = "done"
    /\ UNCHANGED <<gg_variants, gg_group_size, gg_n_groups, gg_wt_seq,
                   gg_selected_indices, gg_groups, gg_iter>>
    /\ UNCHANGED <<lmaxVars, filterVars, subsetVars, inverseVars, generatorVars, pipelineVars, conservationVars,
                   oracleVars, parallelVars, lcsVars, mutationVars>>

\* the returned value: [variants[i] for i in group] for each group
returned_groups ==
    [g \in 1..Len(gg_groups) |->
        [k \in 1..Len(gg_groups[g]) |-> gg_variants[gg_groups[g][k]]]]

InitGroups ==
    /\ gg_variants = <<>>
    /\ gg_group_size = 0
    /\ gg_n_groups = 0
    /\ gg_wt_seq = <<>>
    /\ gg_selected_indices = {}
    /\ gg_groups = <<>>
    /\ gg_iter = 0
    /\ gg_pc = "idle"

-----------------------------------------------------------------------------
(* InverseFolding.generate *)

\* sequences RNA.inverse_fold can return for the target structure
InversePool == { <<"G","C","A","U">>, <<"C","G","A","U">>, <<"G","G","C","C">> }

\* every ordering of a finite set as a list: list(variants) of a Python set
ListsOf(S) ==
    {l \in [1..Cardinality(S) -> S] : \A i, j \in 1..Cardinality(S) : i # j => l[i] # l[j]}

\* line 10: the while condition
if_loop_condition(variants, num_variants, max_attempts) ==
    Cardinality(variants) < num_variants /\ Cardinality(variants) < max_attempts

\* entering InverseFolding.generate: a hit of the lru_cache returns the
\* stored list, otherwise the loop starts with an empty set
IFEnter(target, num, max) ==
    /\ if_target_structure' = target
    /\ if_num_variants' = num
    /\ if_max_attempts' = max
    /\ if_attempts' = 0
    /\ if_variants' = {}
    /\ IF <<target, num, max>> \in DOMAIN if_lru_cache
       THEN /\ if_result' = if_lru_cache[<<target, num, max>>]
            /\ if_pc' = "done"
       ELSE /\ if_result' = <<>>
            /\ if_pc' = "loop"
    /\ UNCHANGED if_lru_cache

\* a direct call of InverseFolding.generate
IFCall ==
    /\ if_pc \in {"idle", "done"}
    /\ vg_pc = "idle"
    /\ \E num \in 0..MaxNumVariants, max \in 0..MaxMaxAttempts :
          /\ \/ <<TargetStruct, num, max>> \in DOMAIN if_lru_cache
             \/ Cardinality(DOMAIN if_lru_cache) < MaxInverseCalls
          /\ IFEnter(TargetStruct, num, max)
    /\ UNCHANGED <<lmaxVars, filterVars, subsetVars, groupVars, generatorVars, pipelineVars, conservationVars,
                   oracleVars, parallelVars, lcsVars, mutationVars>>

\* lines 11-15: RNA.inverse_fold returns a sequence, which is added to the set
IFAttemptOk ==
    /\ if_pc = "loop"
    /\ if_loop_condition(if_variants, if_num_variants, if_max_attempts)
    /\ if_attempts < AttemptCap
    /\ \E seq \in InversePool : if_variants' = if_variants \cup {seq}
    /\ if_attempts' = if_attempts + 1
    /\ UNCHANGED <<if_target_structure, if_num_variants, if_max_attempts,
                   if_result, if_pc, if_lru_cache>>
    /\ UNCHANGED <<lmaxVars, filterVars, subsetVars, groupVars, generatorVars, pipelineVars, conservationVars,
                   oracleVars, parallelVars, lcsVars, mutationVars>>

\* lines 16-17: RNA.inverse_fold raises RuntimeError; `continue`
IFAttemptFail ==
    /\ if_pc = "loop"
    /\ if_loop_condition(if_variants, if_num_variants, if_max_attempts)
    /\ if_attempts < AttemptCap
    /\ if_attempts' = if_attempts + 1
    /\ UNCHANGED <<if_target_structure, if_num_variants, if_max_attempts,
                   if_variants, if_result, if_pc, if_lru_cache>>
    /\ UNCHANGED <<lmaxVars, filterVars, subsetVars, groupVars, generatorVars, pipelineVars, conservationVars,
                   oracleVars, parallelVars, lcsVars, mutationVars>>

\* line 18: the loop condition is false; list(variants) is returned and
\* stored by the lru_cache under the call's arguments
IFReturn ==
    /\ if_pc = "loop"
    /\ ~if_loop_condition(if_variants, if_num_variants, if_max_attempts)
    /\ \E l \in ListsOf(if_variants) :
          /\ if_result' = l
          /\ if_lru_cache' =
                [k \in DOMAIN if_lru_cache \cup
                       {<<if_target_structure, if_num_variants, if_max_attempts>>} |->
                    IF k = <<if_target_structure, if_num_variants, if_max_attempts>>
                    THEN l ELSE if_lru_cache[k]]
    /\ if_pc' = "done"
    /\ UNCHANGED <<if_target_structure, if_num_variants, if_max_attempts,
                   if_variants, if_attempts>>
    /\ UNCHANGED <<lmaxVars, filterVars, subsetVars, groupVars, generatorVars, pipelineVars, conservationVars,
                   oracleVars, parallelVars, lcsVars, mutationVars>>

InitInverse ==
    /\ if_target_structure = ""
    /\ if_num_variants = 0
    /\ if_max_attempts = 0
    /\ if_variants = {}
    /\ if_attempts = 0
    /\ if_result = <<>>
    /\ if_pc = "idle"
    /\ if_lru_cache = <<>>

-----------------------------------------------------------------------------
(* VariantGenerator.generate, InverseFolding.get_seed_sequence and
   ConservationMutator.generate *)

\* Config.AUTO_SWITCH_LENGTH
AUTO_SWITCH_LENGTH == 30
\* default of InverseFolding.generate's max_attempts
INVERSE_DEFAULT_MAX_ATTEMPTS == 10000
\* default of ConservationMutator.generate's max_attempts
MUTATOR_DEFAULT_MAX_ATTEMPTS == 1000000

\* a target structure of 31 positions, one more than AUTO_SWITCH_LENGTH
LongStruct == "((((((((((...........))))))))))"

\* a target structure of exactly AUTO_SWITCH_LENGTH positions
ThresholdStruct == "((((((((((..........))))))))))"

\* target structures handed to VariantGenerator.generate
GeneratorTargets == {TargetStruct, ThresholdStruct, LongStruct}

GenerationMethods == {"auto", "inverse", "conservation"}

use_inverse_folding_from_threshold(method, target) ==
    IF method = "inverse" THEN TRUE
    ELSE IF method = "conservation" THEN FALSE
    ELSE Len(target) >= AUTO_SWITCH_LENGTH

\* VariantGenerator._use_inverse_folding
use_inverse_folding(method, target) ==
    IF method = "inverse" THEN TRUE
    ELSE IF method = "conservation" THEN FALSE
    ELSE Len(target) > AUTO_SWITCH_LENGTH

\* mutators.py line 36: min(max(num_variants * 50, 5000), max_attempts)
pool_size(num_variants, max_attempts) ==
    LET wanted == IF num_variants * 50 > 5000 THEN num_variants * 50 ELSE 5000
    IN  IF wanted < max_attempts THEN wanted ELSE max_attempts

\* what one mutation trial (_generate_candidate) hands back: a mutant that
\* folds into the target, or None (the fold differs, or the trial raised
\* and the exception was swallowed)
None == <<"None">>
MutantPool == InversePool
TrialResults == MutantPool \cup {None}

RECURSIVE collect_variants_unseen(_, _, _, _)
collect_variants_unseen(candidates, num_variants, k, variants) ==
    IF k > Len(candidates) THEN variants
    ELSE LET cand == candidates[k]
             added == IF cand # None THEN Append(variants, cand) ELSE variants
         IN  IF Len(added) >= num_variants THEN added
             ELSE collect_variants_unseen(candidates, num_variants, k + 1, added)

\* mutators.py lines 46-53: `variants` after the candidates from index k on
\* were processed; the loop breaks once len(variants) >= num_variants, a
\* test made after each candidate
RECURSIVE collect_variants(_, _, _, _)
collect_variants(candidates, num_variants, k, variants) ==
    IF k > Len(candidates) THEN variants
    ELSE LET cand == candidates[k]
             added == IF cand # None /\ cand \notin Range(variants)
                      THEN Append(variants, cand) ELSE variants
         IN  IF Len(added) >= num_variants THEN added
             ELSE collect_variants(candidates, num_variants, k + 1, added)

\* VariantGenerator.generate is called; the strategy is chosen and either
\* InverseFolding.generate is entered or the mutation seed is asked for
VGCall ==
    /\ vg_pc = "idle"
    /\ if_pc = "idle"
    /\ \E method \in GenerationMethods, target \in GeneratorTargets,
          num \in 0..MaxNumVariants :
          /\ vg_method' = method
          /\ vg_target_structure' = target
          /\ vg_num_variants' = num
          /\ IF use_inverse_folding(method, target)
             THEN /\ IFEnter(target, num, INVERSE_DEFAULT_MAX_ATTEMPTS)
                  /\ vg_pc' = "inverse"
             ELSE /\ UNCHANGED inverseVars
                  /\ vg_pc' = "seed"
    /\ UNCHANGED <<vg_seed, vg_result>>
    /\ UNCHANGED <<lmaxVars, filterVars, subsetVars, groupVars, pipelineVars, conservationVars,
                   oracleVars, parallelVars, lcsVars, mutationVars>>

\* selector.py line 12: InverseFolding.generate returned
VGInverseReturn ==
    /\ vg_pc = "inverse"
    /\ if_pc = "done"
    /\ vg_result' = if_result
    /\ vg_pc' = "done"
    /\ UNCHANGED <<vg_method, vg_target_structure, vg_num_variants, vg_seed>>
    /\ UNCHANGED <<lmaxVars, filterVars, subsetVars, groupVars, inverseVars, pipelineVars, conservationVars,
                   oracleVars, parallelVars, lcsVars, mutationVars>>

\* get_seed_sequence: RNA.inverse_fold returns a sequence
VGSeedOk ==
    /\ vg_pc = "seed"
    /\ \E seed \in InversePool : vg_seed' = seed
    /\ vg_pc' = "mutate"
    /\ UNCHANGED <<vg_method, vg_target_structure, vg_num_variants, vg_result>>
    /\ UNCHANGED <<lmaxVars, filterVars, subsetVars, groupVars, inverseVars, pipelineVars, conservationVars,
                   oracleVars, parallelVars, lcsVars, mutationVars>>

\* get_seed_sequence: RNA.inverse_fold raises; neither get_seed_sequence nor
\* _generate_with_conservation nor generate catches it
VGSeedRaise ==
    /\ vg_pc = "seed"
    /\ vg_pc' = "raised"
    /\ UNCHANGED <<vg_method, vg_target_structure, vg_num_variants, vg_seed, vg_result>>
    /\ UNCHANGED <<lmaxVars, filterVars, subsetVars, groupVars, inverseVars, pipelineVars, conservationVars,
                   oracleVars, parallelVars, lcsVars, mutationVars>>

\* ConservationMutator.generate: the trials' results are gathered in order
\* and the first num_variants distinct mutants are returned
VGMutate ==
    /\ vg_pc = "mutate"
    /\ LET trials == pool_size(vg_num_variants, MUTATOR_DEFAULT_MAX_ATTEMPTS)
           n == IF trials < MaxTrials THEN trials ELSE MaxTrials
       IN  \E candidates \in [1..n -> TrialResults] :
              vg_result' = collect_variants(candidates, vg_num_variants, 1, <<>>)
    /\ vg_pc' = "done"
    /\ UNCHANGED <<vg_method, vg_target_structure, vg_num_variants, vg_seed>>
    /\ UNCHANGED <<lmaxVars, filterVars, subsetVars, groupVars, inverseVars, pipelineVars, conservationVars,
                   oracleVars, parallelVars, lcsVars, mutationVars>>

InitGenerator ==
    /\ vg_method = "auto"
    /\ vg_target_structure = ""
    /\ vg_num_variants = 0
    /\ vg_seed = <<>>
    /\ vg_result = <<>>
    /\ vg_pc = "idle"

-----------------------------------------------------------------------------
(* aggregate_runs *)

\* the first 10 letters of Config.WILD_TYPE_SCAFFOLD
WILD_TYPE_SCAFFOLD == <<"G","T","G","A","A","C","T","G","C","C">>

SeqGc50 == <<"C","A","U","G","G","A","C","U","A","G">>

\* sequences a run's generation can yield; SeqGc40 and SeqGc60 share the
\* run GAUCA, every other pair and every sequence and the scaffold share
\* less
PipePool == {SeqGc40, SeqGc60, SeqGc50}

\* value of Config.LMAX_THRESHOLD followed
PipeThresholds == {3}

\* the engine's answers followed in aggregate_runs
PipeFoldAnswers == { <<TargetStruct, -2>> }
PipeConfAnswers == { <<90, 5>>, <<69, 5>> }

\* inverse_folding.py lines 9-18 seen from the caller: the sequences the
\* inverse folder returned attempt by attempt are collected in a set, and
\* list(variants) is returned, in any order
inverse_generate_results(found) == ListsOf(Range(found))

\* mutators.py lines 37-61 seen from the caller: the trial results, the
\* sequence or None of each trial, are reduced to the distinct sequences
mutator_generate_result(candidates, num_variants) ==
    collect_variants(candidates, num_variants, 1, <<>>)

\* main.py line 34: generate(wt_struct, Config.TARGET_VARIANT_COUNT*10), the
\* arguments under which lru_cache stores InverseFolding.generate's result
pl_cache_key(wt_struct, target) == <<wt_struct, target * 10, INVERSE_DEFAULT_MAX_ATTEMPTS>>

\* lines 35-38: filter_variants, enforce_lmax_filter and the slice
\* final[:TARGET_VARIANT_COUNT] of one run, for the candidates `raw`
run_final(raw, wt_struct, fold, conf, target, threshold) ==
    LET filtered == filter_variants(raw, wt_struct, fold, conf, target)
        final == enforce_lmax_filter(filtered, WILD_TYPE_SCAFFOLD, threshold)
    IN  SubSeq(final, 1, IF target < Len(final) THEN target ELSE Len(final))

\* lines 46-52: the diverse subset of the aggregated variants
aggregate_final_variants(unique_variants, target, threshold) ==
    LET actual_target == IF target < Len(unique_variants)
                         THEN target ELSE Len(unique_variants)
    IN  select_diverse_subset(unique_variants, actual_target)

\* aggregate_runs is called
PipelineStart ==
    /\ pl_pc = "idle"
    /\ \E n \in 1..MaxRuns, method \in GenerationMethods, target \in 1..MaxTarget,
          th \in PipeThresholds, fold \in [PipePool -> PipeFoldAnswers],
          conf \in [PipePool -> PipeConfAnswers] :
          /\ pl_n_runs' = n
          /\ pl_method' = method
          /\ pl_target' = target
          /\ pl_threshold' = th
          /\ pl_fold' = fold
          /\ pl_conf' = conf
    /\ pl_run' = 0
    /\ pl_all_variants' = {}
    /\ pl_raw' = <<>>
    /\ pl_filtered' = <<>>
    /\ pl_final_variants' = <<>>
    /\ pl_pc' = "running"
    /\ UNCHANGED <<lmaxVars, filterVars, subsetVars, groupVars, inverseVars, generatorVars,
                   conservationVars, oracleVars, parallelVars,
                   lcsVars, mutationVars>>

\* one iteration of the loop using direct inverse folding: the candidates
\* are the lru_cache's list if one is stored for the arguments, otherwise a
\* new list, which is stored
PipelineRunInverse ==
    /\ pl_pc = "running"
    /\ pl_run < pl_n_runs
    /\ use_inverse_folding(pl_method, TargetStruct)
    /\ LET key == pl_cache_key(TargetStruct, pl_target)
       IN  \E raw \in (IF key \in DOMAIN if_lru_cache
                       THEN {if_lru_cache[key]}
                       ELSE UNION {inverse_generate_results(found) :
                                      found \in [1..MaxRaw -> PipePool]}) :
              /\ if_lru_cache' = [k \in DOMAIN if_lru_cache \cup {key} |->
                                     IF k = key THEN raw ELSE if_lru_cache[k]]
              /\ pl_raw' = raw
              /\ pl_filtered' = filter_variants(raw, TargetStruct, pl_fold, pl_conf,
                                                pl_target)
              /\ pl_all_variants' = pl_all_variants \cup
                    Range(run_final(raw, TargetStruct, pl_fold, pl_conf,
                                    pl_target, pl_threshold))
    /\ pl_run' = pl_run + 1
    /\ UNCHANGED <<pl_n_runs, pl_method, pl_target, pl_threshold, pl_fold, pl_conf,
                   pl_final_variants, pl_pc>>
    /\ UNCHANGED <<if_target_structure, if_num_variants, if_max_attempts,
                   if_variants, if_attempts, if_result, if_pc>>
    /\ UNCHANGED <<lmaxVars, filterVars, subsetVars, groupVars, generatorVars, conservationVars,
                   oracleVars, parallelVars, lcsVars, mutationVars>>

\* one iteration of the loop using conservation-guided mutation: a new seed
\* and new mutants each time
PipelineRunMutation ==
    /\ pl_pc = "running"
    /\ pl_run < pl_n_runs
    /\ ~use_inverse_folding(pl_method, TargetStruct)
    /\ \E candidates \in [1..MaxRaw -> PipePool \cup {None}] :
          LET raw == mutator_generate_result(candidates, pl_target * 10)
          IN  /\ pl_raw' = raw
              /\ pl_filtered' = filter_variants(raw, TargetStruct, pl_fold, pl_conf,
                                                pl_target)
              /\ pl_all_variants' = pl_all_variants \cup
                    Range(run_final(raw, TargetStruct, pl_fold, pl_conf,
                                    pl_target, pl_threshold))
    /\ pl_run' = pl_run + 1
    /\ UNCHANGED <<pl_n_runs, pl_method, pl_target, pl_threshold, pl_fold, pl_conf,
                   pl_final_variants, pl_pc>>
    /\ UNCHANGED <<lmaxVars, filterVars, subsetVars, groupVars, inverseVars, generatorVars,
                   conservationVars, oracleVars, parallelVars,
                   lcsVars, mutationVars>>

\* lines 42-44: the iteration raised (the mutation seed's inverse folding
\* failed); the error is logged and the loop continues
PipelineRunError ==
    /\ pl_pc = "running"
    /\ pl_run < pl_n_runs
    /\ ~use_inverse_folding(pl_method, TargetStruct)
    /\ pl_run' = pl_run + 1
    /\ UNCHANGED <<pl_n_runs, pl_method, pl_target, pl_threshold, pl_fold, pl_conf,
                   pl_all_variants, pl_raw, pl_filtered, pl_final_variants, pl_pc>>
    /\ UNCHANGED <<lmaxVars, filterVars, subsetVars, groupVars, inverseVars, generatorVars,
                   conservationVars, oracleVars, parallelVars,
                   lcsVars, mutationVars>>

\* lines 46-54: after the loop; list(all_variants) has an arbitrary order
PipelineFinish ==
    /\ pl_pc = "running"
    /\ pl_run >= pl_n_runs
    /\ \E unique_variants \in ListsOf(pl_all_variants) :
          pl_final_variants' =
              aggregate_final_variants(unique_variants, pl_target, pl_threshold)
    /\ pl_pc' = "done"
    /\ UNCHANGED <<pl_n_runs, pl_method, pl_target, pl_threshold, pl_fold, pl_conf,
                   pl_run, pl_all_variants, pl_raw, pl_filtered>>
    /\ UNCHANGED <<lmaxVars, filterVars, subsetVars, groupVars, inverseVars, generatorVars,
                   conservationVars, oracleVars, parallelVars,
                   lcsVars, mutationVars>>

InitPipeline ==
    /\ pl_n_runs = 0
    /\ pl_method = "auto"
    /\ pl_target = 1
    /\ pl_threshold = 0
    /\ pl_fold = <<>>
    /\ pl_conf = <<>>
    /\ pl_run = 0
    /\ pl_all_variants = {}
    /\ pl_raw = <<>>
    /\ pl_filtered = <<>>
    /\ pl_final_variants = <<>>
    /\ pl_pc = "idle"

-----------------------------------------------------------------------------
(* ConservationAnalyzer *)

\* ConservationAnalyzer.BASES
BASES == <<"A", "T", "C", "G">>
\* Config.CONSERVATION_ATTEMPTS
CONSERVATION_ATTEMPTS == 100
\* the settings of Config.CONSERVATION_ATTEMPTS followed: none, the default
ConfigAttempts == {0, CONSERVATION_ATTEMPTS}
\* Config.MFE_TOLERANCE
MFE_TOLERANCE == 5

\* reference sequences analysed; the last one is written with the RNA
\* letter U
ConsShortRefs == { <<"A","C">>, <<"G","T","A">>, <<"G","U","A">> }

\* 10-nt reference sequences without a run of equal bases: SeqGc40 in RNA
\* letters, and the same sequence written with T
SeqGc40T == <<"G","C","A","T","A","G","A","T","C","A">>
ConsLongRefs == { SeqGc40, SeqGc40T }

ConsRefs == ConsShortRefs \cup ConsLongRefs

\* run_rnafold's value when the engine raises (sequence_analysis.py line 35)
FoldFailed == <<"", 0>>

\* what run_rnafold gives __init__ for the reference sequence: a structure
\* and MFE, or the failure value
ConsRefFolds == { <<"(.)", -2>>, FoldFailed }

\* what run_rnafold gives for a single-point mutant: a structure and MFE
\* (the usual reference's, the same structure with an MFE 6 away, another
\* structure) or the failure value
ConsFoldAnswers == { <<"(.)", -2>>, <<"(.)", -8>>, <<"...", -2>>, FoldFailed }

\* the engine's answers followed for the three variants of one position:
\* none when no trial is made; any for a short reference; for a 10-nt
\* reference the engine that gives every mutant the reference's own
\* structure and MFE
engine_answers(seq, ref_fold, n_attempts) ==
    IF n_attempts = 0 THEN {<< >>}
    ELSE IF seq \in ConsLongRefs THEN {[j \in 1..3 |-> ref_fold]}
    ELSE [1..3 -> ConsFoldAnswers]

\* line 49: [b for b in self.BASES if b != ref_base]
alternatives(ref_base) == SelectSeq(BASES, LAMBDA b : b # ref_base)

\* f with key k set to v (dict assignment, lru_cache insertion)
store(f, k, v) == [x \in DOMAIN f \cup {k} |-> IF x = k THEN v ELSE f[x]]

\* _create_variant
create_variant(seq, pos, alt_base) == [seq EXCEPT ![pos] = alt_base]

\* passes_gc_filter with its defaults min_gc=0.3, max_gc=0.7 (fractions)
passes_gc_filter(seq) ==
    3 * Len(seq) <= 10 * gc_count(seq) /\ 10 * gc_count(seq) <= 7 * Len(seq)

\* _is_valid_variant, for the engine's answer <<struct, mfe>> on the variant
is_valid_variant(variant, answer, ref_fold) ==
    LET diff == answer[2] - ref_fold[2]
    IN  /\ answer[1] = ref_fold[1]
        /\ passes_gc_filter(variant)
        /\ (IF diff < 0 THEN -diff ELSE diff) <= MFE_TOLERANCE
        /\ ~has_homopolymer(variant, MAX_RUN)

\* _analyze_position writes pos_attempts[j] for every alternative j; the
\* arrays have 3 cells, so a reference base outside BASES, which leaves 4
\* alternatives, raises IndexError
position_raises(seq, pos, n_attempts) ==
    Len(alternatives(seq[pos])) > 3 /\ n_attempts > 0

\* _analyze_position: <<pos_attempts, pos_accepts>>, n_attempts being
\* Config.CONSERVATION_ATTEMPTS and folds[j] what run_rnafold gives for the
\* j-th alternative's variant.  Each of the n_attempts trials of an
\* alternative builds the same variant and gets the same (memoized) answer,
\* so all of them are accepted or none is.
analyze_position(seq, pos, folds, ref_fold, n_attempts) ==
    LET alts == alternatives(seq[pos])
        accepted(j) == IF j > Len(alts) \/ n_attempts = 0 THEN 0
                       ELSE IF is_valid_variant(create_variant(seq, pos, alts[j]),
                                                folds[j], ref_fold)
                       THEN n_attempts ELSE 0
        attempted(j) == IF j > Len(alts) THEN 0 ELSE n_attempts
    IN  << <<attempted(1), attempted(2), attempted(3)>>,
           <<accepted(1), accepted(2), accepted(3)>> >>

conservation_score_sum(attempts, accepts) ==
    LET d(j) == IF attempts[j] = 0 THEN 1 ELSE attempts[j]
        a(j) == IF attempts[j] = 0 THEN 0 ELSE accepts[j]
        den == d(1) * d(2) * d(3)
        num == a(1) * d(2) * d(3) + a(2) * d(1) * d(3) + a(3) * d(1) * d(2)
    IN  <<den - num, den>>

\* _calculate_scores for one position: 1 - mean of accepts/attempts (0 where
\* attempts is 0), as the fraction <<numerator, denominator>>
conservation_score(attempts, accepts) ==
    LET d(j) == IF attempts[j] = 0 THEN 1 ELSE attempts[j]
        a(j) == IF attempts[j] = 0 THEN 0 ELSE accepts[j]
        den == 3 * d(1) * d(2) * d(3)
        num == a(1) * d(2) * d(3) + a(2) * d(1) * d(3) + a(3) * d(1) * d(2)
    IN  <<den - num, den>>

\* line 23: self.cache_file.exists()
cache_hit(cache_file, seq) == cache_file # <<>>

\* ConservationAnalyzer(seq).analyze(attempts_per_pos) for a cached profile
CAAnalyzeCached ==
    /\ ca_pc # "running"
    /\ \E seq \in ConsRefs, app \in 1..MaxAttemptsPerPos, ref_fold \in ConsRefFolds :
          /\ cache_hit(ca_cache_file, seq)
          /\ ca_seq' = seq
          /\ ca_attempts_per_pos' = app
          /\ ca_ref_fold' = ref_fold
    /\ \E n_attempts \in ConfigAttempts : ca_config_attempts' = n_attempts
    /\ ca_result' = ca_cache_file[1].conservation
    /\ ca_pc' = "done"
    /\ UNCHANGED <<ca_cache_file, ca_results, ca_last_pos, ca_last_folds,
                   ca_attempts, ca_accepts>>
    /\ UNCHANGED <<lmaxVars, filterVars, subsetVars, groupVars, inverseVars,
                   generatorVars, pipelineVars, oracleVars,
                   parallelVars, lcsVars, mutationVars>>

\* ConservationAnalyzer(seq).analyze(attempts_per_pos) without a cached
\* profile: _run_analysis hands the positions to parallel_map
CAAnalyzeStart ==
    /\ ca_pc # "running"
    /\ \E seq \in ConsRefs, app \in 1..MaxAttemptsPerPos, ref_fold \in ConsRefFolds :
          /\ ~cache_hit(ca_cache_file, seq)
          /\ ca_seq' = seq
          /\ ca_attempts_per_pos' = app
          /\ ca_ref_fold' = ref_fold
    /\ \E n_attempts \in ConfigAttempts : ca_config_attempts' = n_attempts
    /\ ca_results' = << >>
    /\ ca_last_pos' = 0
    /\ ca_last_folds' = << >>
    /\ ca_pc' = "running"
    /\ UNCHANGED <<ca_cache_file, ca_attempts, ca_accepts, ca_result>>
    /\ UNCHANGED <<lmaxVars, filterVars, subsetVars, groupVars, inverseVars,
                   generatorVars, pipelineVars, oracleVars,
                   parallelVars, lcsVars, mutationVars>>

\* a worker runs _analyze_position(pos) for a position not yet analysed;
\* the workers take the positions in any order
CAPosition ==
    /\ ca_pc = "running"
    /\ \E pos \in (1..Len(ca_seq)) \ DOMAIN ca_results :
          /\ ~position_raises(ca_seq, pos, ca_config_attempts)
          /\ \E folds \in engine_answers(ca_seq, ca_ref_fold, ca_config_attempts) :
                /\ ca_results' = store(ca_results, pos,
                                       analyze_position(ca_seq, pos, folds, ca_ref_fold,
                                                        ca_config_attempts))
                /\ ca_last_pos' = pos
                /\ ca_last_folds' = folds
    /\ UNCHANGED <<ca_cache_file, ca_seq, ca_attempts_per_pos, ca_ref_fold,
                   ca_config_attempts, ca_attempts, ca_accepts, ca_result, ca_pc>>
    /\ UNCHANGED <<lmaxVars, filterVars, subsetVars, groupVars, inverseVars,
                   generatorVars, pipelineVars, oracleVars,
                   parallelVars, lcsVars, mutationVars>>

\* _analyze_position raises for some position: pool.map raises, the
\* sequential fallback raises again and the error leaves analyze; nothing
\* is saved
CAPositionRaise ==
    /\ ca_pc = "running"
    /\ \E pos \in (1..Len(ca_seq)) \ DOMAIN ca_results :
          position_raises(ca_seq, pos, ca_config_attempts)
    /\ ca_pc' = "raised"
    /\ ca_last_pos' = 0
    /\ ca_last_folds' = << >>
    /\ UNCHANGED <<ca_cache_file, ca_seq, ca_attempts_per_pos, ca_ref_fold, ca_results,
                   ca_config_attempts, ca_attempts, ca_accepts, ca_result>>
    /\ UNCHANGED <<lmaxVars, filterVars, subsetVars, groupVars, inverseVars,
                   generatorVars, pipelineVars, oracleVars,
                   parallelVars, lcsVars, mutationVars>>

\* _run_analysis lines 40-44 and analyze lines 27-28: every position has its
\* result; the counts are laid out by position, scored, and the profile is
\* saved and returned
CAGather ==
    /\ ca_pc = "running"
    /\ DOMAIN ca_results = 1..Len(ca_seq)
    /\ LET profile == [pos \in 1..Len(ca_seq) |->
                          conservation_score(ca_results[pos][1], ca_results[pos][2])]
       IN  /\ ca_attempts' = [pos \in 1..Len(ca_seq) |-> ca_results[pos][1]]
           /\ ca_accepts' = [pos \in 1..Len(ca_seq) |-> ca_results[pos][2]]
           /\ ca_result' = profile
           /\ ca_cache_file' = <<[conservation |-> profile, computed_for |-> ca_seq]>>
    /\ ca_last_pos' = 0
    /\ ca_last_folds' = << >>
    /\ ca_pc' = "done"
    /\ UNCHANGED <<ca_seq, ca_attempts_per_pos, ca_ref_fold, ca_results,
                   ca_config_attempts>>
    /\ UNCHANGED <<lmaxVars, filterVars, subsetVars, groupVars, inverseVars,
                   generatorVars, pipelineVars, oracleVars,
                   parallelVars, lcsVars, mutationVars>>

InitConservation ==
    /\ ca_cache_file = <<>>
    /\ ca_seq = <<>>
    /\ ca_attempts_per_pos = 1
    /\ ca_ref_fold = FoldFailed
    /\ ca_config_attempts = CONSERVATION_ATTEMPTS
    /\ ca_results = << >>
    /\ ca_last_pos = 0
    /\ ca_last_folds = << >>
    /\ ca_attempts = <<>>
    /\ ca_accepts = <<>>
    /\ ca_result = <<>>
    /\ ca_pc = "idle"

-----------------------------------------------------------------------------
(* the folding engine and its result caches *)

\* sequences handed to the engine
OraclePool == { <<"G","C","A","U">>, <<"G","G","C","C">> }

\* the engine's operations: RNA.fold_compound(..).mfe() in run_rnafold,
\* fold_compound(..).pf() in structure_confidence, RNA.inverse_fold
OracleOps == {"fold", "structure_confidence", "inverse_fold"}

\* what fc.mfe() returns when it does not raise
OracleFoldAnswers == { <<"(..)", -2>>, <<"....", 0>> }
\* what structure_confidence returns (<<0, 0>> when the engine raises)
OracleConfAnswers == { <<90, 5>>, <<0, 0>> }

\* one more invocation of the engine for op on seq
engine_called(calls, op, seq) ==
    [calls EXCEPT ![op] = [@ EXCEPT ![seq] = @ + 1]]

\* run_rnafold(seq) when lru_cache holds seq: the stored value is returned
ORFoldLruHit ==
    /\ \E seq \in OraclePool :
          /\ seq \in DOMAIN or_lru
          /\ or_result' = or_lru[seq]
    /\ UNCHANGED <<or_lru, or_rnafold_cache, or_engine_calls>>
    /\ UNCHANGED <<lmaxVars, filterVars, subsetVars, groupVars, inverseVars, generatorVars,
                   pipelineVars, conservationVars, parallelVars,
                   lcsVars, mutationVars>>

\* run_rnafold(seq), lines 25-27: not in lru_cache but in
\* cache_manager.rnafold_cache
ORFoldCacheHit ==
    /\ \E seq \in OraclePool :
          /\ seq \notin DOMAIN or_lru
          /\ seq \in DOMAIN or_rnafold_cache
          /\ or_result' = or_rnafold_cache[seq]
          /\ or_lru' = store(or_lru, seq, or_rnafold_cache[seq])
    /\ UNCHANGED <<or_rnafold_cache, or_engine_calls>>
    /\ UNCHANGED <<lmaxVars, filterVars, subsetVars, groupVars, inverseVars, generatorVars,
                   pipelineVars, conservationVars, parallelVars,
                   lcsVars, mutationVars>>

\* run_rnafold(seq), lines 28-32: the engine folds seq, the result is stored
ORFoldEngine ==
    /\ \E seq \in OraclePool, answer \in OracleFoldAnswers :
          /\ seq \notin DOMAIN or_lru
          /\ seq \notin DOMAIN or_rnafold_cache
          /\ or_engine_calls["fold"][seq] < MaxEngineCalls
          /\ or_engine_calls' = engine_called(or_engine_calls, "fold", seq)
          /\ or_rnafold_cache' = store(or_rnafold_cache, seq, answer)
          /\ or_lru' = store(or_lru, seq, answer)
          /\ or_result' = answer
    /\ UNCHANGED <<lmaxVars, filterVars, subsetVars, groupVars, inverseVars, generatorVars,
                   pipelineVars, conservationVars, parallelVars,
                   lcsVars, mutationVars>>

\* run_rnafold(seq), lines 33-35: the engine raises; ("", 0.0) is returned
\* (and kept by lru_cache only)
ORFoldEngineFails ==
    /\ \E seq \in OraclePool :
          /\ seq \notin DOMAIN or_lru
          /\ seq \notin DOMAIN or_rnafold_cache
          /\ or_engine_calls["fold"][seq] < MaxEngineCalls
          /\ or_engine_calls' = engine_called(or_engine_calls, "fold", seq)
          /\ or_lru' = store(or_lru, seq, FoldFailed)
          /\ or_result' = FoldFailed
    /\ UNCHANGED or_rnafold_cache
    /\ UNCHANGED <<lmaxVars, filterVars, subsetVars, groupVars, inverseVars, generatorVars,
                   pipelineVars, conservationVars, parallelVars,
                   lcsVars, mutationVars>>

\* structure_confidence(seq, target_structure): no cache is consulted or
\* written
ORConfidence ==
    /\ \E seq \in OraclePool, answer \in OracleConfAnswers :
          /\ or_engine_calls["structure_confidence"][seq] < MaxEngineCalls
          /\ or_engine_calls' = engine_called(or_engine_calls, "structure_confidence", seq)
          /\ or_result' = answer
    /\ UNCHANGED <<or_lru, or_rnafold_cache>>
    /\ UNCHANGED <<lmaxVars, filterVars, subsetVars, groupVars, inverseVars, generatorVars,
                   pipelineVars, conservationVars, parallelVars,
                   lcsVars, mutationVars>>

\* RNA.inverse_fold(seed, target_structure) as InverseFolding calls it: the
\* engine directly, answering a sequence or raising
ORInverseFold ==
    /\ \E seed \in OraclePool, answer \in OraclePool \cup {<<"raised">>} :
          /\ or_engine_calls["inverse_fold"][seed] < MaxEngineCalls
          /\ or_engine_calls' = engine_called(or_engine_calls, "inverse_fold", seed)
          /\ or_result' = answer
    /\ UNCHANGED <<or_lru, or_rnafold_cache>>
    /\ UNCHANGED <<lmaxVars, filterVars, subsetVars, groupVars, inverseVars, generatorVars,
                   pipelineVars, conservationVars, parallelVars,
                   lcsVars, mutationVars>>

\* the process ends (atexit saves rnafold_cache) and a new one starts
\* (SequenceCache._load_cache): lru_cache starts empty, the engine has not
\* been invoked by the new process
ORProcessRestart ==
    /\ or_lru # << >>
    /\ or_lru' = << >>
    /\ or_engine_calls' = [op \in OracleOps |-> [seq \in OraclePool |-> 0]]
    /\ or_result' = << >>
    /\ UNCHANGED or_rnafold_cache
    /\ UNCHANGED <<lmaxVars, filterVars, subsetVars, groupVars, inverseVars, generatorVars,
                   pipelineVars, conservationVars, parallelVars,
                   lcsVars, mutationVars>>

InitOracle ==
    /\ or_lru = << >>
    /\ or_rnafold_cache = << >>
    /\ or_engine_calls = [op \in OracleOps |-> [seq \in OraclePool |-> 0]]
    /\ or_result = << >>

-----------------------------------------------------------------------------
(* ParallelProcessor *)

\* the three entry points; each has the same try / pool / except / sequential
\* shape
ParallelOps == {"parallel_map", "parallel_starmap", "parallel_apply"}

\* work items (the callers pass lists and ranges)
PMItems == {1, 2, 3}

\* the function applied to an item (func, func(*args), partial_func)
func(item) == item * item + 10

\* the except branch: [func(item) for item in iterable]
sequential_results_without_done(items, done) ==
    LET todo == SelectSeq([i \in 1..Len(items) |-> i], LAMBDA i : i \notin DOMAIN done)
    IN  [k \in 1..Len(todo) |-> func(items[todo[k]])]

sequential_results(items, done) == [i \in 1..Len(items) |-> func(items[i])]

\* what pool.map returns: the workers' results by the index of their item
gathered_by_completion(done, order) == [k \in 1..Len(order) |-> done[order[k]]]

gathered(done, order) == [i \in 1..Len(order) |-> done[i]]

\* parallel_map / parallel_starmap / parallel_apply is called
PMCall ==
    /\ pm_pc = "idle"
    /\ \E op \in ParallelOps, items \in SeqsUpTo(PMItems, MaxItems) :
          /\ pm_op' = op
          /\ pm_items' = items
    /\ pm_done' = << >>
    /\ pm_order' = << >>
    /\ pm_result' = << >>
    /\ pm_fell_back' = FALSE
    /\ pm_pc' = "creating"
    /\ UNCHANGED <<lmaxVars, filterVars, subsetVars, groupVars, inverseVars, generatorVars,
                   pipelineVars, conservationVars, oracleVars,
                   lcsVars, mutationVars>>

\* multiprocessing.Pool(...) raises: the except branch does the work
PMPoolCreateFails ==
    /\ pm_pc = "creating"
    /\ pm_result' = sequential_results(pm_items, pm_done)
    /\ pm_fell_back' = TRUE
    /\ pm_pc' = "done"
    /\ UNCHANGED <<pm_op, pm_items, pm_done, pm_order>>
    /\ UNCHANGED <<lmaxVars, filterVars, subsetVars, groupVars, inverseVars, generatorVars,
                   pipelineVars, conservationVars, oracleVars,
                   lcsVars, mutationVars>>

\* the pool exists and pool.map has handed out the items
PMPoolCreated ==
    /\ pm_pc = "creating"
    /\ pm_pc' = "running"
    /\ UNCHANGED <<pm_op, pm_items, pm_done, pm_order, pm_result, pm_fell_back>>
    /\ UNCHANGED <<lmaxVars, filterVars, subsetVars, groupVars, inverseVars, generatorVars,
                   pipelineVars, conservationVars, oracleVars,
                   lcsVars, mutationVars>>

\* some worker finishes some item that is not finished yet
PMWorkerDone ==
    /\ pm_pc = "running"
    /\ \E i \in (1..Len(pm_items)) \ DOMAIN pm_done :
          /\ pm_done' = store(pm_done, i, func(pm_items[i]))
          /\ pm_order' = Append(pm_order, i)
    /\ UNCHANGED <<pm_op, pm_items, pm_result, pm_fell_back, pm_pc>>
    /\ UNCHANGED <<lmaxVars, filterVars, subsetVars, groupVars, inverseVars, generatorVars,
                   pipelineVars, conservationVars, oracleVars,
                   lcsVars, mutationVars>>

\* the pool raises while running, with any part of the work done: the
\* except branch does the work
PMPoolRaises ==
    /\ pm_pc = "running"
    /\ pm_result' = sequential_results(pm_items, pm_done)
    /\ pm_fell_back' = TRUE
    /\ pm_pc' = "done"
    /\ UNCHANGED <<pm_op, pm_items, pm_done, pm_order>>
    /\ UNCHANGED <<lmaxVars, filterVars, subsetVars, groupVars, inverseVars, generatorVars,
                   pipelineVars, conservationVars, oracleVars,
                   lcsVars, mutationVars>>

\* every item is finished: pool.map returns
PMGather ==
    /\ pm_pc = "running"
    /\ DOMAIN pm_done = 1..Len(pm_items)
    /\ pm_result' = gathered(pm_done, pm_order)
    /\ pm_pc' = "done"
    /\ UNCHANGED <<pm_op, pm_items, pm_done, pm_order, pm_fell_back>>
    /\ UNCHANGED <<lmaxVars, filterVars, subsetVars, groupVars, inverseVars, generatorVars,
                   pipelineVars, conservationVars, oracleVars,
                   lcsVars, mutationVars>>

InitParallel ==
    /\ pm_op = "parallel_map"
    /\ pm_items = << >>
    /\ pm_done = << >>
    /\ pm_order = << >>
    /\ pm_result = << >>
    /\ pm_fell_back = FALSE
    /\ pm_pc = "idle"

-----------------------------------------------------------------------------
(* calls of SequenceAnalyzer.longest_common_substring *)

\* bases the compared sequences are written with
LcsBases == {"A", "C", "G"}

\* longest_common_substring(s1, s2) is called
LcsCall ==
    /\ lc_pc = "idle"
    /\ \E s1 \in SeqsUpTo(LcsBases, MaxLcsLen), s2 \in SeqsUpTo(LcsBases, MaxLcsLen) :
          /\ lc_s1' = s1
          /\ lc_s2' = s2
          /\ lc_result' = longest_common_substring(s1, s2)
    /\ lc_pc' = "done"
    /\ UNCHANGED <<lmaxVars, filterVars, subsetVars, groupVars, inverseVars, generatorVars,
                   pipelineVars, conservationVars, oracleVars, parallelVars,
                   mutationVars>>

InitLcs ==
    /\ lc_s1 = << >>
    /\ lc_s2 = << >>
    /\ lc_result = 0
    /\ lc_pc = "idle"

-----------------------------------------------------------------------------
(* ConservationMutator._generate_candidate / _mutate_with_bias *)

\* Config.N_MUTATIONS and Config.MUTATION_WEIGHTS as shipped
N_MUTATIONS == 20
MUTATION_WEIGHTS == <<70, 25, 5>>

\* Config.MUTATION_STRATEGY: "fixed", or anything else for the sampled count
MutationStrategies == {"fixed", "random"}

\* np.random.choice([1, 2, 3], p=weights): the counts of non-zero weight
sampled_counts == {k \in 1..3 : MUTATION_WEIGHTS[k] > 0}

\* seeds of 0, 2, 4, 7 and 9 nt, and one of 32 nt
MutShortSeeds ==
    { <<>>,
      <<"G","C">>,
      <<"A","C","G","U">>,
      <<"G","A","U","C","A","U","G">>,
      <<"G","C","A","U","A","G","A","U","C">> }

MutLongSeed ==
    <<"G","C","A","U","A","G","A","U","C","A","G","C","G","U","C","G",
      "A","U","C","A","G","C","A","U","A","G","A","U","C","A","G","C">>

\* the (seed, strategy, N_MUTATIONS) combinations a trial is run with
MutationInputs ==
    (MutShortSeeds \X {"fixed"} \X ((1..MaxNMutations) \cup {N_MUTATIONS}))
    \cup (MutShortSeeds \X {"random"} \X {N_MUTATIONS})
    \cup ({MutLongSeed} \X {"fixed"} \X (1..MaxLongMutations))

\* lines 74-78: the n_mutations _generate_candidate can pass on
chosen_n_mutations(strategy, config_n) ==
    IF strategy = "fixed" THEN {config_n} ELSE sampled_counts

\* a slip: a quarter of the length whatever the length
capped_n_mutations_quarter(seq, n_mutations) ==
    IF n_mutations < Len(seq) \div 4 THEN n_mutations ELSE Len(seq) \div 4

\* lines 106-111: min(n_mutations, len(seq) // 3) up to 30 nt, and
\* min(n_mutations, len(seq) // 4) above
capped_n_mutations(seq, n_mutations) ==
    IF Len(seq) <= 30
    THEN IF n_mutations < Len(seq) \div 3 THEN n_mutations ELSE Len(seq) \div 3
    ELSE IF n_mutations < Len(seq) \div 4 THEN n_mutations ELSE Len(seq) \div 4

\* line 122: np.random.choice(positions, size, replace=False, p=weights):
\* every weight is positive (uniform, or a tolerance clipped to >= 0.1
\* blended with a constant), so every arrangement of `size` distinct
\* positions can be drawn
drawn_positions(seq, size) ==
    {ps \in [1..size -> 1..Len(seq)] :
        \A i, j \in 1..size : i # j => ps[i] # ps[j]}

\* lines 126-130: the list random.choice draws from, uniformly by index
mutation_alternatives(current_base) ==
    LET differing == SelectSeq(<<"A","C","G","U">>, LAMBDA b : b # current_base)
    IN  IF current_base \in {"A", "U"}
        THEN <<"G", "C">> \o SelectSeq(differing, LAMBDA b : b \notin {"G", "C"})
        ELSE differing

\* _generate_candidate up to the for loop of _mutate_with_bias: the count is
\* chosen, capped, and the positions are drawn; an empty seed is returned as
\* it is (lines 101-102)
MUCall ==
    /\ mu_pc = "idle"
    /\ \E input \in MutationInputs :
         \E n \in chosen_n_mutations(input[2], input[3]) :
           LET seq == input[1]
               size == IF seq = <<>> THEN 0 ELSE capped_n_mutations(seq, n)
           IN  \E ps \in drawn_positions(seq, size) :
                  /\ mu_seed' = seq
                  /\ mu_strategy' = input[2]
                  /\ mu_config_n' = input[3]
                  /\ mu_n_mutations' = n
                  /\ mu_capped' = size
                  /\ mu_positions' = ps
                  /\ mu_seq' = seq
    /\ mu_done' = 0
    /\ mu_pc' = "mutate"
    /\ UNCHANGED <<mu_current_base, mu_alternatives, mu_result>>
    /\ UNCHANGED <<lmaxVars, filterVars, subsetVars, groupVars, inverseVars, generatorVars,
                   pipelineVars, conservationVars, oracleVars, parallelVars, lcsVars>>

\* lines 123-132: one iteration of `for pos in mut_positions`
MUSubstitute ==
    /\ mu_pc = "mutate"
    /\ mu_done < Len(mu_positions)
    /\ LET pos == mu_positions[mu_done + 1]
           current_base == mu_seq[pos]
           alts == mutation_alternatives(current_base)
       IN  /\ mu_current_base' = current_base
           /\ mu_alternatives' = alts
           /\ \E k \in 1..Len(alts) : mu_seq' = [mu_seq EXCEPT ![pos] = alts[k]]
    /\ mu_done' = mu_done + 1
    /\ UNCHANGED <<mu_seed, mu_strategy, mu_config_n, mu_n_mutations, mu_capped,
                   mu_positions, mu_result, mu_pc>>
    /\ UNCHANGED <<lmaxVars, filterVars, subsetVars, groupVars, inverseVars, generatorVars,
                   pipelineVars, conservationVars, oracleVars, parallelVars, lcsVars>>

\* lines 81-85: RNA.fold gives the target structure and the mutant is returned
MUFoldMatches ==
    /\ mu_pc = "mutate"
    /\ mu_done = Len(mu_positions)
    /\ mu_result' = mu_seq
    /\ mu_pc' = "done"
    /\ UNCHANGED <<mu_seed, mu_strategy, mu_config_n, mu_n_mutations, mu_capped,
                   mu_positions, mu_done, mu_seq, mu_current_base, mu_alternatives>>
    /\ UNCHANGED <<lmaxVars, filterVars, subsetVars, groupVars, inverseVars, generatorVars,
                   pipelineVars, conservationVars, oracleVars, parallelVars, lcsVars>>

\* lines 86-89: RNA.fold gives another structure, or raises: None is returned
MUFoldRejects ==
    /\ mu_pc = "mutate"
    /\ mu_done = Len(mu_positions)
    /\ mu_result' = None
    /\ mu_pc' = "done"
    /\ UNCHANGED <<mu_seed, mu_strategy, mu_config_n, mu_n_mutations, mu_capped,
                   mu_positions, mu_done, mu_seq, mu_current_base, mu_alternatives>>
    /\ UNCHANGED <<lmaxVars, filterVars, subsetVars, groupVars, inverseVars, generatorVars,
                   pipelineVars, conservationVars, oracleVars, parallelVars, lcsVars>>

InitMutation ==
    /\ mu_seed = <<>>
    /\ mu_strategy = "fixed"
    /\ mu_config_n = N_MUTATIONS
    /\ mu_n_mutations = 0
    /\ mu_capped = 0
    /\ mu_positions = <<>>
    /\ mu_done = 0
    /\ mu_seq = <<>>
    /\ mu_current_base = ""
    /\ mu_alternatives = <<>>
    /\ mu_result = <<>>
    /\ mu_pc = "idle"

-----------------------------------------------------------------------------
Init ==
    /\ InitLmax /\ InitFilter /\ InitSubset /\ InitGroups
    /\ InitInverse /\ InitGenerator /\ InitPipeline /\ InitConservation
    /\ InitOracle /\ InitParallel /\ InitLcs /\ InitMutation

NextLmax == LmaxCall

SpecLmax == Init /\ [][NextLmax]_vars

NextFilter == FilterCall

SpecFilter == Init /\ [][NextFilter]_vars

NextSubset == SubsetCall

SpecSubset == Init /\ [][NextSubset]_vars

NextGroups == GroupsCall \/ GroupsIter \/ GroupsReturn

SpecGroups == Init /\ [][NextGroups]_vars

NextInverse == IFCall \/ IFAttemptOk \/ IFAttemptFail \/ IFReturn

SpecInverse == Init /\ [][NextInverse]_vars

NextGenerator ==
    \/ VGCall \/ VGInverseReturn \/ VGSeedOk \/ VGSeedRaise \/ VGMutate
    \/ IFAttemptOk \/ IFAttemptFail \/ IFReturn

SpecGenerator == Init /\ [][NextGenerator]_vars

NextPipeline ==
    \/ PipelineStart \/ PipelineRunInverse \/ PipelineRunMutation
    \/ PipelineRunError \/ PipelineFinish

SpecPipeline == Init /\ [][NextPipeline]_vars

NextConservation ==
    \/ CAAnalyzeCached \/ CAAnalyzeStart \/ CAPosition \/ CAPositionRaise \/ CAGather

SpecConservation == Init /\ [][NextConservation]_vars

NextOracle ==
    \/ ORFoldLruHit \/ ORFoldCacheHit \/ ORFoldEngine \/ ORFoldEngineFails
    \/ ORConfidence \/ ORInverseFold \/ ORProcessRestart

SpecOracle == Init /\ [][NextOracle]_vars

NextParallel ==
    \/ PMCall \/ PMPoolCreateFails \/ PMPoolCreated \/ PMWorkerDone
    \/ PMPoolRaises \/ PMGather

SpecParallel == Init /\ [][NextParallel]_vars

NextLcs == LcsCall

SpecLcs == Init /\ [][NextLcs]_vars

NextMutation == MUCall \/ MUSubstitute \/ MUFoldMatches \/ MUFoldRejects

SpecMutation == Init /\ [][NextMutation]_vars

-----------------------------------------------------------------------------
(* C1 *)

\* a and b share a contiguous run of k symbols (at any offsets)
SharesRun(a, b, k) ==
    \E i \in 1..(Len(a) - k + 1), j \in 1..(Len(b) - k + 1) :
        \A d \in 0..(k - 1) : a[i + d] = b[j + d]

\* C1: in the list returned by enforce_lmax_filter no two entries (at distinct
\* positions), and no entry and the reference, share a contiguous run longer
\* than the threshold.
C1_LmaxOutputPairwiseBounded ==
    lf_pc = "done" =>
        /\ \A i, j \in 1..Len(lf_passed) :
              i # j => ~SharesRun(lf_passed[i], lf_passed[j], lf_threshold + 1)
        /\ \A i \in 1..Len(lf_passed) :
              ~SharesRun(lf_passed[i], lf_wt_seq, lf_threshold + 1)

\* a call that rejected a candidate only because of an earlier accepted one
\* (not because of the reference), and accepted at least two
C1_Witness ==
    /\ lf_pc = "done"
    /\ Len(lf_passed) >= 2
    /\ \E k \in 1..Len(lf_variants) :
          /\ lf_variants[k] \notin Range(lf_passed)
          /\ longest_common_substring(lf_variants[k], lf_wt_seq) <= lf_threshold

-----------------------------------------------------------------------------
(* C3 *)

\* seq holds four equal consecutive bases
HasRunOfFour(seq) ==
    \E i \in 1..(Len(seq) - 3) :
        seq[i] = seq[i + 1] /\ seq[i + 1] = seq[i + 2] /\ seq[i + 2] = seq[i + 3]

\* C3: every sequence filter_variants returns has the reference structure as
\* its predicted structure, a GC percentage within [40, 60] (bounds included),
\* no run of more than 3 equal bases, a structure probability >= 0.7 and a
\* structure diversity <= 20, each recomputed from the sequence and the
\* engine's answers for it.
C3_FilterOutputMeetsCriteria ==
    fv_pc = "done" =>
        \A k \in 1..Len(fv_top) :
            LET seq == fv_top[k]
                gc == Cardinality({i \in 1..Len(seq) : seq[i] = "G"})
                      + Cardinality({i \in 1..Len(seq) : seq[i] = "C"})
            IN  /\ seq \in DOMAIN fv_fold
                /\ fv_fold[seq][1] = fv_wt_struct
                /\ 2 * Len(seq) <= 5 * gc /\ 5 * gc <= 3 * Len(seq)
                /\ ~HasRunOfFour(seq)
                /\ seq \in DOMAIN fv_conf
                /\ fv_conf[seq][1] >= 70
                /\ fv_conf[seq][2] <= 20

\* a call that returned a sequence at the bound of every criterion while
\* another candidate of the same call was rejected
C3_Witness ==
    /\ fv_pc = "done"
    /\ Len(fv_top) >= 1
    /\ Len(fv_top) < Len(fv_variants)
    /\ fv_top[1] = SeqGc40
    /\ fv_conf[fv_top[1]] = <<70, 20>>

-----------------------------------------------------------------------------
(* C4 *)

PairwiseDistinct(list) == \A i, j \in 1..Len(list) : i # j => list[i] # list[j]

\* C4: for a pool of fewer than 100 pairwise-distinct sequences and n >= 0,
\* select_diverse_subset returns exactly min(n, |pool|) sequences, all from
\* the pool and pairwise distinct; when |pool| <= n it returns the pool
\* itself, same content and same order.
C4_SubsetSizeAndMembers ==
    (ss_pc = "done" /\ PairwiseDistinct(ss_variants) /\ Len(ss_variants) < 100) =>
        /\ Len(ss_result) = (IF ss_n < Len(ss_variants) THEN ss_n ELSE Len(ss_variants))
        /\ \A k \in 1..Len(ss_result) : \E i \in 1..Len(ss_variants) :
              ss_result[k] = ss_variants[i]
        /\ PairwiseDistinct(ss_result)
        /\ (Len(ss_variants) <= ss_n => ss_result = ss_variants)

\* a call on 3 distinct sequences asking for 2: the farthest-point path ran
\* and did not simply return a prefix of the pool
C4_Witness ==
    /\ ss_pc = "done"
    /\ PairwiseDistinct(ss_variants)
    /\ Len(ss_variants) = 3
    /\ ss_n = 2
    /\ Len(ss_result) = 2
    /\ ss_result # SubSeq(ss_variants, 1, 2)

-----------------------------------------------------------------------------
(* C5 *)

\* the returned groups laid end to end
RECURSIVE Flatten(_)
Flatten(lists) ==
    IF Len(lists) = 0 THEN <<>> ELSE Flatten(SubSeq(lists, 1, Len(lists) - 1)) \o lists[Len(lists)]

\* C5: for a pool of pairwise-distinct sequences the groups built by
\* generate_diverse_groups are pairwise disjoint: no sequence of the pool is
\* in two groups or twice in one group.
C5_GroupsDisjoint ==
    (gg_pc \in {"loop", "done"} /\ PairwiseDistinct(gg_variants)) =>
        PairwiseDistinct(Flatten(returned_groups))

\* two groups of two sequences each were returned
C5_Witness ==
    /\ gg_pc = "done"
    /\ PairwiseDistinct(gg_variants)
    /\ Len(gg_groups) = 2
    /\ Len(gg_groups[1]) = 2
    /\ Len(gg_groups[2]) >= 1

-----------------------------------------------------------------------------
(* C6 *)

\* C6: for a non-empty pool and non-negative group_size and n_groups,
\* generate_diverse_groups returns at most n_groups groups, each of size
\* <= group_size, with at most n_groups * group_size sequences in total.
C6_GroupSizesBounded ==
    (gg_pc = "done" /\ Len(gg_variants) > 0) =>
        /\ Len(gg_groups) <= gg_n_groups
        /\ \A g \in 1..Len(gg_groups) : Len(gg_groups[g]) <= gg_group_size
        /\ Len(Flatten(gg_groups)) <= gg_n_groups * gg_group_size

-----------------------------------------------------------------------------
(* C9 *)

\* C9: called with an empty pool, select_diverse_subset returns an empty list
\* and generate_diverse_groups returns an empty list of groups; neither
\* raises.
C9_EmptyPoolReturnsEmpty ==
    /\ (ss_pc # "idle" /\ ss_variants = <<>>) => (ss_pc = "done" /\ ss_result = <<>>)
    /\ (gg_pc # "idle" /\ gg_variants = <<>>) => (gg_pc # "raised" /\ gg_groups = <<>>)

-----------------------------------------------------------------------------
(* C7 *)

\* C7: InverseFolding.generate stops as soon as num_variants distinct
\* sequences are collected or max_attempts invocations of the inverse folder
\* were made, whatever the folder does: while the loop runs, fewer than
\* max_attempts invocations were made and never more than max_attempts are.
C7_AttemptCeilingRespected ==
    /\ if_attempts <= if_max_attempts
    /\ (if_pc = "loop" /\ if_attempts >= if_max_attempts) =>
          ~if_loop_condition(if_variants, if_num_variants, if_max_attempts)

-----------------------------------------------------------------------------
(* C8 *)

\* C8: VariantGenerator.generate never raises, in any generation mode: not
\* when the inverse-folding call for the mutation seed fails and not when
\* mutation trials raise.
C8_GenerateNeverRaises == vg_pc # "raised"

-----------------------------------------------------------------------------
(* C2 *)

\* C2: in the list aggregate_runs returns (n_runs >= 1) no two entries, and
\* no entry and the reference, share a contiguous run longer than the Lmax
\* threshold.
C2_PipelineOutputPairwiseBounded ==
    (pl_pc = "done" /\ pl_n_runs >= 1) =>
        /\ \A i, j \in 1..Len(pl_final_variants) :
              i # j => ~SharesRun(pl_final_variants[i], pl_final_variants[j],
                                  pl_threshold + 1)
        /\ \A i \in 1..Len(pl_final_variants) :
              ~SharesRun(pl_final_variants[i], WILD_TYPE_SCAFFOLD, pl_threshold + 1)

-----------------------------------------------------------------------------
(* C10 *)

\* C10: a profile returned by analyze was computed for the analyzer's own
\* reference sequence and has one score per position of it, also when a
\* profile of another reference sequence was cached before.
C10_ProfileIsForOwnSequence ==
    ca_pc = "done" =>
        /\ Len(ca_result) = Len(ca_seq)
        /\ ca_cache_file # <<>>
        /\ ca_cache_file[1].computed_for = ca_seq

-----------------------------------------------------------------------------
(* C11 *)

\* C11: no run of aggregate_runs after the first finds a stored result of an
\* earlier run's generation: when a later iteration of the loop is about to
\* generate its candidates, nothing is stored under the arguments of its
\* generation call, so the candidates come from new calls of the engine.
C11_NoGenerationCarriedAcrossRuns ==
    (pl_pc = "running" /\ pl_run >= 1 /\ pl_run < pl_n_runs) =>
        pl_cache_key(TargetStruct, pl_target) \notin DOMAIN if_lru_cache

-----------------------------------------------------------------------------
(* C12 *)

\* C12: each of the three engine operations is memoized by sequence: within
\* one process the engine is invoked at most once for an operation on a
\* sequence, a repeated call being answered from the stored result.
C12_EngineInvokedOncePerSequence ==
    \A op \in OracleOps, seq \in OraclePool : or_engine_calls[op][seq] <= 1

-----------------------------------------------------------------------------
(* C13 *)

\* C13: in the conservation profiler a trial whose folding failed is an
\* attempt that is counted and is not accepted: for the position analysed
\* last, every alternative whose variant the engine failed to fold has all
\* its attempts counted and no accept.
C13_FailedTrialIsRejection ==
    (ca_pc = "running" /\ ca_last_pos # 0) =>
        \A j \in DOMAIN ca_last_folds :
            ca_last_folds[j] = FoldFailed =>
                /\ ca_results[ca_last_pos][1][j] = ca_config_attempts
                /\ ca_results[ca_last_pos][2][j] = 0

-----------------------------------------------------------------------------
(* C14 *)

-----------------------------------------------------------------------------
(* C15 *)

\* C15: whatever the order in which the workers finish, the returned list has
\* one element per input item and its i-th element is the result for the
\* i-th item.
C15_GatherKeepsInputOrder ==
    pm_pc = "done" =>
        /\ Len(pm_result) = Len(pm_items)
        /\ \A i \in 1..Len(pm_items) : pm_result[i] = pm_items[i] * pm_items[i] + 10

\* the pool returned the results of three different items whose workers
\* finished in the reverse of the input order
C15_Witness ==
    /\ pm_pc = "done"
    /\ ~pm_fell_back
    /\ Len(pm_items) = 3
    /\ pm_items[1] # pm_items[2] /\ pm_items[2] # pm_items[3] /\ pm_items[1] # pm_items[3]
    /\ pm_order = <<3, 2, 1>>

-----------------------------------------------------------------------------
(* C16 *)

\* C16: for a 10-nt reference without a run of more than 3 equal bases, at
\* least one trial per alternative and an engine that gives every mutant the reference's structure and MFE, the
\* analysis does not fail and the profile computed for the reference has
\* conservation score 0 at every position.
C16_ConstantOracleGivesScoreZero ==
    (Len(ca_seq) = 10 /\ ~HasRunOfFour(ca_seq) /\ ca_config_attempts > 0) =>
        /\ ca_pc # "raised"
        /\ (ca_pc = "done" /\ ca_cache_file[1].computed_for = ca_seq) =>
              \A pos \in 1..Len(ca_seq) : ca_result[pos][1] = 0

-----------------------------------------------------------------------------
(* C17 *)

RECURSIVE Gcd(_, _)
Gcd(a, b) == IF b = 0 THEN a ELSE Gcd(b, a % b)

\* the fraction f = <<numerator, denominator>> in lowest terms
Lowest(f) == LET g == Gcd(f[1], f[2]) IN <<f[1] \div g, f[2] \div g>>

\* C17: whatever the reference, the engine's answers and the number of
\* trials, every analysed position has accepts <= attempts for each of its
\* three alternatives, and every score of a computed profile is a fraction
\* between 0 and 1 that equals 1 minus the mean of accepts/attempts, an
\* alternative without attempts counting 0.
C17_ScoresWithinUnitInterval ==
    /\ \A pos \in DOMAIN ca_results : \A j \in 1..3 :
          /\ 0 <= ca_results[pos][2][j]
          /\ ca_results[pos][2][j] <= ca_results[pos][1][j]
    /\ (ca_pc = "done" /\ ca_cache_file[1].computed_for = ca_seq) =>
          \A pos \in 1..Len(ca_seq) :
              LET score == ca_result[pos]
                  att == ca_attempts[pos]
                  acc == ca_accepts[pos]
              IN  /\ score[2] > 0
                  /\ 0 <= score[1] /\ score[1] <= score[2]
                  /\ (att[1] = 0 /\ att[2] = 0 /\ att[3] = 0) => score[1] = score[2]
                  /\ (att[1] > 0 /\ att[2] > 0 /\ att[3] > 0) =>
                        Lowest(<<score[2] - score[1], score[2]>>) =
                          Lowest(<<acc[1] * att[2] * att[3] + acc[2] * att[1] * att[3]
                                     + acc[3] * att[1] * att[2],
                                   3 * att[1] * att[2] * att[3]>>)

\* a profile was computed, with trials, that has a score strictly between 0
\* and 1
C17_Witness ==
    /\ ca_pc = "done"
    /\ ca_cache_file[1].computed_for = ca_seq
    /\ ca_config_attempts = CONSERVATION_ATTEMPTS
    /\ \E pos \in 1..Len(ca_seq) :
          0 < ca_result[pos][1] /\ ca_result[pos][1] < ca_result[pos][2]

-----------------------------------------------------------------------------
(* C18 *)

-----------------------------------------------------------------------------
(* C19 *)

\* C19: longest_common_substring(a, b) equals longest_common_substring(b, a),
\* equals the length of a when b = a, and is the largest k such that a run
\* of k symbols occurs in both a and b, at any offsets (0 when either is
\* empty).
C19_LcsSymmetricAndExact ==
    lc_pc = "done" =>
        /\ lc_result = longest_common_substring(lc_s2, lc_s1)
        /\ (lc_s1 = lc_s2 => lc_result = Len(lc_s1))
        /\ (lc_s1 = << >> \/ lc_s2 = << >>) => lc_result = 0
        /\ SharesRun(lc_s1, lc_s2, lc_result)
        /\ \A k \in (lc_result + 1)..Len(lc_s1) : ~SharesRun(lc_s1, lc_s2, k)

\* two different 3-symbol sequences whose longest common run, of length 2,
\* starts at different offsets in the two
C19_Witness ==
    /\ lc_pc = "done"
    /\ Len(lc_s1) = 3 /\ Len(lc_s2) = 3
    /\ lc_result = 2
    /\ lc_s1[2] = lc_s2[1] /\ lc_s1[3] = lc_s2[2]
    /\ lc_s1[1] # lc_s2[1]

-----------------------------------------------------------------------------
(* C20 *)

\* C20: VariantGenerator.generate takes the direct inverse-folding path
\* exactly when the method is "inverse", or the method is "auto" and the
\* target structure is longer than the threshold of 30; otherwise (method
\* "conservation", or "auto" with a length up to and including 30) it takes
\* the conservation-guided mutation path.
C20_StrategyChoice ==
    LET direct == vg_method = "inverse"
                  \/ (vg_method = "auto" /\ Len(vg_target_structure) > 30)
    IN  /\ vg_pc = "inverse" => direct
        /\ vg_pc \in {"seed", "mutate", "raised"} => ~direct

\* auto mode took the mutation path for a structure of exactly 30 symbols
C20_Witness ==
    /\ vg_pc = "seed"
    /\ vg_method = "auto"
    /\ Len(vg_target_structure) = 30

-----------------------------------------------------------------------------
(* C21 *)

\* C21: in generate_diverse_groups the seed of the first group is an
\* available sequence with maximal Hamming distance to the reference, and the
\* seed of every later group is drawn from all the still-available sequences:
\* each of them can become that group's seed.
C21_SeedRule ==
    LET available == (1..Len(gg_variants)) \ gg_selected_indices
        seeds == iteration_seeds(gg_variants, gg_wt_seq, available)
        d == dists_to_wt(gg_variants, gg_wt_seq)
    IN  (gg_pc = "loop" /\ gg_iter < gg_n_groups /\ available # {}) =>
            IF gg_iter = 0
            THEN \A i \in seeds : i \in available /\ \A j \in available : d[j] <= d[i]
            ELSE seeds = available

-----------------------------------------------------------------------------
(* C22 *)

\* the indices taken before member k of group g was picked
C22_TakenBefore(g, k) ==
    Range(Flatten(SubSeq(gg_groups, 1, g - 1))) \cup {gg_groups[g][j] : j \in 1..(k - 1)}

\* the remaining indices whose minimum distance to the members 1..k-1 of
\* group g is largest
C22_BestCandidates(g, k) ==
    LET members == SubSeq(gg_groups[g], 1, k - 1)
        remaining == (1..Len(gg_variants)) \ C22_TakenBefore(g, k)
    IN  {i \in remaining : \A j \in remaining :
            min_dist(gg_variants, j, members) <= min_dist(gg_variants, i, members)}

\* growth stops only at group_size or when the pool is exhausted
C22_GrowthRunsToTheEnd ==
    \A g \in 1..Len(gg_groups) :
        Len(gg_groups[g]) < gg_group_size =>
            (g = Len(gg_groups) /\ gg_selected_indices = 1..Len(gg_variants))

\* C22 as stated: the group-growth step picks the candidate the expansion
\* step of the subset selector picks from the same distance matrix, members
\* and candidates (same max-min rule, same tie-break), and growth continues
\* until the group reaches group_size or the pool is exhausted.
C22_GrowthSameAsSelector ==
    /\ Len(gg_groups) >= 1 =>
          \A k \in 2..Len(gg_groups[1]) :
              gg_groups[1][k] = dbs_best_idx(gg_variants, SubSeq(gg_groups[1], 1, k - 1))
    /\ C22_GrowthRunsToTheEnd

\* C22, amended: both steps pick a candidate whose minimum distance to the
\* current members is largest, but among equal candidates the group growth
\* takes the one with the largest index and the subset selector the one with
\* the smallest; growth continues until the group reaches group_size or the
\* pool is exhausted.
C22_GrowthMaxMinLargestIndex ==
    /\ \A g \in 1..Len(gg_groups) : \A k \in 2..Len(gg_groups[g]) :
          /\ gg_groups[g][k] = SetMax(C22_BestCandidates(g, k))
          /\ g = 1 => dbs_best_idx(gg_variants, SubSeq(gg_groups[1], 1, k - 1))
                          = SetMin(C22_BestCandidates(g, k))
    /\ C22_GrowthRunsToTheEnd

\* a first group was grown past its seed with two equally good candidates to
\* choose from, and a group ended short because the pool ran out
C22_Witness ==
    /\ gg_pc = "done"
    /\ Len(gg_groups) = 2
    /\ Len(gg_groups[1]) = 2
    /\ Cardinality(C22_BestCandidates(1, 2)) = 2
    /\ Len(gg_groups[2]) < gg_group_size

-----------------------------------------------------------------------------
(* C23 *)

\* the positions of lf_variants whose candidate shares no run longer than
\* the threshold with the reference nor with the candidate at an earlier
\* position of Acc
C23_GreedyAccepted(Acc) ==
    \A k \in 1..Len(lf_variants) :
        k \in Acc <=>
            /\ ~SharesRun(lf_variants[k], lf_wt_seq, lf_threshold + 1)
            /\ \A j \in Acc :
                  j < k => ~SharesRun(lf_variants[k], lf_variants[j], lf_threshold + 1)

\* C23: enforce_lmax_filter goes through the candidates in the given order,
\* starting from an accepted set that holds only the reference; a candidate
\* is accepted iff its longest common substring with the reference and with
\* every candidate accepted before it is <= threshold, a discarded candidate
\* is never taken up again, and the output is the accepted candidates in
\* their input order.
C23_GreedyInInputOrder ==
    lf_pc = "done" =>
        \E Acc \in SUBSET (1..Len(lf_variants)) :
            /\ C23_GreedyAccepted(Acc)
            /\ Len(lf_passed) = Cardinality(Acc)
            /\ \A k \in Acc :
                  lf_passed[Cardinality({j \in Acc : j <= k})] = lf_variants[k]

\* a call in which the order mattered: a candidate was discarded because of
\* an earlier accepted one, a later candidate was accepted, and that later
\* candidate and the discarded one are compatible with each other
C23_Witness ==
    /\ lf_pc = "done"
    /\ Len(lf_variants) = 3
    /\ lf_passed = <<lf_variants[1], lf_variants[3]>>
    /\ ~SharesRun(lf_variants[2], lf_wt_seq, lf_threshold + 1)
    /\ ~SharesRun(lf_variants[2], lf_variants[3], lf_threshold + 1)

-----------------------------------------------------------------------------
(* C24 *)

\* the positions of fv_variants whose candidate meets the five criteria
C24_Survivors ==
    {k \in 1..Len(fv_variants) :
        LET seq == fv_variants[k]
        IN  /\ fv_fold[seq][1] = fv_wt_struct
            /\ in_gc_range(seq)
            /\ ~HasRunOfFour(seq)
            /\ seq \in DOMAIN fv_conf
            /\ fv_conf[seq][1] >= 70
            /\ fv_conf[seq][2] <= 20}

\* seq ranks strictly before other: higher probability, or the same
\* probability and a lower MFE
C24_RanksBefore(seq, other) ==
    \/ fv_conf[seq][1] > fv_conf[other][1]
    \/ fv_conf[seq][1] = fv_conf[other][1] /\ fv_fold[seq][2] < fv_fold[other][2]

\* C24: filter_variants returns exactly the first min(TARGET_VARIANT_COUNT,
\* number of survivors) survivors of the ranking by non-increasing structure
\* probability, ties by non-decreasing MFE; so the output is no longer than
\* min(target count, size of the candidate pool).
C24_RankedAndTruncated ==
    fv_pc = "done" =>
        LET inTop(seq) == Cardinality({k \in 1..Len(fv_top) : fv_top[k] = seq})
            inSurvivors(seq) == Cardinality({k \in C24_Survivors : fv_variants[k] = seq})
            count == IF fv_target < Cardinality(C24_Survivors)
                     THEN fv_target ELSE Cardinality(C24_Survivors)
        IN  /\ Len(fv_top) = count
            /\ Len(fv_top) <= fv_target /\ Len(fv_top) <= Len(fv_variants)
            /\ \A k \in 1..Len(fv_top) : inTop(fv_top[k]) <= inSurvivors(fv_top[k])
            /\ \A k \in 1..(Len(fv_top) - 1) : ~C24_RanksBefore(fv_top[k + 1], fv_top[k])
            /\ \A s \in C24_Survivors :
                  inTop(fv_variants[s]) < inSurvivors(fv_variants[s]) =>
                      \A k \in 1..Len(fv_top) : ~C24_RanksBefore(fv_variants[s], fv_top[k])

\* two survivors with the same probability and a target of one: the second
\* candidate has the lower MFE and is the one returned
C24_Witness ==
    /\ fv_pc = "done"
    /\ Len(fv_variants) = 2
    /\ C24_Survivors = {1, 2}
    /\ fv_target = 1
    /\ fv_conf[fv_variants[1]][1] = fv_conf[fv_variants[2]][1]
    /\ fv_fold[fv_variants[2]][2] < fv_fold[fv_variants[1]][2]
    /\ fv_top = <<fv_variants[2]>>

-----------------------------------------------------------------------------
(* C25 *)

\* seq meets criteria (1)-(3): structure equal to the reference's, GC content
\* within 40..60 %, no run of four equal bases
C25_PassesFirstThree(seq) ==
    LET gc == Cardinality({i \in 1..Len(seq) : seq[i] \in {"G", "C"}})
    IN  /\ fv_fold[seq][1] = fv_wt_struct
        /\ 2 * Len(seq) <= 5 * gc /\ 5 * gc <= 3 * Len(seq)
        /\ ~HasRunOfFour(seq)

\* seq meets criteria (4) and (5)
C25_PassesLastTwo(seq) == fv_conf[seq][1] >= 70 /\ fv_conf[seq][2] <= 20

-----------------------------------------------------------------------------
(* C26 *)

\* the positions at which the working sequence differs from the seed
C26_Changed == {k \in 1..Len(mu_seed) : mu_seq[k] # mu_seed[k]}

\* the mutation count is the configured one or one of 1, 2, 3; the positions
\* are pairwise distinct; each substitution puts a different base; the
\* length is kept
C26_TrialShape ==
    /\ mu_strategy = "fixed" => mu_n_mutations = mu_config_n
    /\ mu_strategy # "fixed" => mu_n_mutations \in {1, 2, 3}
    /\ \A i, j \in 1..Len(mu_positions) : i # j => mu_positions[i] # mu_positions[j]
    /\ Len(mu_seq) = Len(mu_seed)
    /\ C26_Changed = {mu_positions[k] : k \in 1..mu_done}

-----------------------------------------------------------------------------
(* C29 *)

\* the number of entries of the list the substitute is drawn from (uniformly
\* by index) that hold base b: the chance of b is this over the list's length
C29_Weight(b) ==
    Cardinality({k \in 1..Len(mu_alternatives) : mu_alternatives[k] = b})

\* C29: when the current base at a chosen position is A or U, each of G and
\* C is strictly more likely to be drawn as the substitute than the remaining
\* differing base; when it is G or C the three differing bases are equally
\* likely; the substitute always differs from the current base.
C29_GcPreferredForAU ==
    mu_done >= 1 =>
        LET differing == {"A", "C", "G", "U"} \ {mu_current_base}
        IN  /\ C29_Weight(mu_current_base) = 0
            /\ mu_current_base \in {"A", "U"} =>
                  \A b \in differing \ {"G", "C"} :
                      C29_Weight("G") > C29_Weight(b) /\ C29_Weight("C") > C29_Weight(b)
            /\ mu_current_base \in {"G", "C"} =>
                  \A b, c \in differing :
                      C29_Weight(b) = C29_Weight(c) /\ C29_Weight(b) >= 1

-----------------------------------------------------------------------------
(* C27 *)

\* C27: a profiler trial is marked accepted iff the single-point mutant's
\* predicted structure equals the reference's, its GC content lies within
\* the configured band the variant filter uses (40..60 %), its MFE is within
\* the configured tolerance of the reference's, and it has no run of more
\* than 3 equal bases.
C27_AcceptedIffFourCriteria ==
    (ca_pc = "running" /\ ca_last_pos # 0 /\ ca_config_attempts > 0) =>
        \A j \in 1..3 :
            LET variant == [ca_seq EXCEPT
                              ![ca_last_pos] = alternatives(ca_seq[ca_last_pos])[j]]
                gc == Cardinality({i \in 1..Len(variant) : variant[i] \in {"G", "C"}})
                diff == ca_last_folds[j][2] - ca_ref_fold[2]
                accepted == ca_results[ca_last_pos][2][j] > 0
            IN  accepted <=>
                    /\ ca_last_folds[j][1] = ca_ref_fold[1]
                    /\ GC_CONTENT_MIN * Len(variant) <= 100 * gc
                    /\ 100 * gc <= GC_CONTENT_MAX * Len(variant)
                    /\ diff <= MFE_TOLERANCE /\ -diff <= MFE_TOLERANCE
                    /\ ~HasRunOfFour(variant)

-----------------------------------------------------------------------------
(* C28 *)

\* C28: for a reference over {A,C,G,U} the profiler tries, at every
\* position, exactly the 3 bases of that alphabet that differ from the
\* reference base, and runs exactly the number of trials passed to the
\* analysis for each of them: every cell of the attempts matrix holds that
\* number, and the analysis ends without an error.
C28_ThreeRnaBasesRequestedTrials ==
    Range(ca_seq) \subseteq {"A", "C", "G", "U"} =>
        /\ ca_pc # "raised"
        /\ ca_pc = "running" =>
              \A pos \in DOMAIN ca_results :
                  /\ Range(alternatives(ca_seq[pos])) = {"A", "C", "G", "U"} \ {ca_seq[pos]}
                  /\ \A j \in 1..3 : ca_results[pos][1][j] = ca_attempts_per_pos

=============================================================================
